---- MODULE Spec2Model ----
(***************************************************************************)
(* Model of the argument-analysis agent (server/a2a-agent.js, class        *)
(* A2AAgent) and of the message router (server/mcp.js, class MCP).         *)
(*                                                                         *)
(* Numbers.  JavaScript numbers are IEEE-754 binary64 values.  The scores  *)
(* and the trend thresholds are decimal fractions (0.1, 0.6, count / 3),   *)
(* which binary64 does not hold exactly, and the comparisons of the code   *)
(* are decided by the rounded values.  The model therefore computes with   *)
(* binary64 values: a number is either Zero or a record                    *)
(*     [s |-> sign (1 or -1), e |-> exponent, m |-> 53 bits, first bit 1]  *)
(* that stands for  s * (m read as a binary integer) * 2^e.  Every         *)
(* operation computes the exact result and rounds it to nearest, ties to   *)
(* even.  Overflow, subnormals, NaN and infinities do not occur for the    *)
(* magnitudes of this program and are not modelled.                        *)
(***************************************************************************)
EXTENDS Integers, Sequences, FiniteSets, TLC

(***************************************************************************)
(* Natural numbers as sequences of limbs (digits to the base 2^15), most   *)
(* significant limb first.  A binary64 mantissa of 53 bits takes 4 limbs.  *)
(***************************************************************************)
MantissaBits == 53
LimbBits == 15
Base == 32768

TwoTo(n) == 2^n

RECURSIVE Strip(_)
Strip(b) == IF b = <<>> THEN <<>>
            ELSE IF b[1] = 0 THEN Strip(Tail(b)) ELSE b

PadLeft(b, n) == [i \in 1..(n - Len(b)) |-> 0] \o b

\* the number of bits of a natural number without leading zero limbs
BitLen(b) ==
  IF b = <<>> THEN 0
  ELSE LimbBits * (Len(b) - 1)
       + CHOOSE n \in 1..LimbBits : TwoTo(n - 1) <= b[1] /\ b[1] < TwoTo(n)

RECURSIVE NatOf(_)
NatOf(n) == IF n = 0 THEN <<>> ELSE Append(NatOf(n \div Base), n % Base)

\* a + b + carry over the limbs 1..i of two sequences of equal length
RECURSIVE AddAt(_, _, _, _)
AddAt(a, b, i, carry) ==
  IF i = 0 THEN (IF carry = 1 THEN <<1>> ELSE <<>>)
  ELSE LET t == a[i] + b[i] + carry
       IN  Append(AddAt(a, b, i - 1, t \div Base), t % Base)

AddNat(a, b) ==
  LET n == IF Len(a) > Len(b) THEN Len(a) ELSE Len(b)
  IN  AddAt(PadLeft(a, n), PadLeft(b, n), n, 0)

\* a - b - borrow over the limbs 1..i, for a >= b
RECURSIVE SubAt(_, _, _, _)
SubAt(a, b, i, borrow) ==
  IF i = 0 THEN <<>>
  ELSE LET t == a[i] - b[i] - borrow
       IN  Append(SubAt(a, b, i - 1, IF t < 0 THEN 1 ELSE 0),
                  IF t < 0 THEN t + Base ELSE t)

SubNat(a, b) ==
  LET n == IF Len(a) > Len(b) THEN Len(a) ELSE Len(b)
  IN  SubAt(PadLeft(a, n), PadLeft(b, n), n, 0)

\* -1, 0 or 1 as a < b, a = b, a > b (sequences of equal length)
RECURSIVE CmpAt(_, _, _)
CmpAt(a, b, i) ==
  IF i > Len(a) THEN 0
  ELSE IF a[i] < b[i] THEN -1
  ELSE IF a[i] > b[i] THEN 1
  ELSE CmpAt(a, b, i + 1)

CmpNat(a, b) ==
  LET n == IF Len(a) > Len(b) THEN Len(a) ELSE Len(b)
  IN  CmpAt(PadLeft(a, n), PadLeft(b, n), 1)

\* a * k + carry over the limbs 1..i, for 0 < k <= Base
RECURSIVE MulAt(_, _, _, _)
MulAt(a, k, i, carry) ==
  IF i = 0 THEN (IF carry = 0 THEN <<>> ELSE <<carry>>)
  ELSE LET t == a[i] * k + carry
       IN  Append(MulAt(a, k, i - 1, t \div Base), t % Base)

\* long division of a by k (0 < k <= Base) from limb i on with remainder r:
\* the quotient's limbs, followed by the final remainder
RECURSIVE DivAt(_, _, _, _)
DivAt(a, k, i, r) ==
  IF i > Len(a) THEN <<r>>
  ELSE LET t == r * Base + a[i]
       IN  <<t \div k>> \o DivAt(a, k, i + 1, t % k)

ShiftLeft(a, n) ==
  MulAt(a, TwoTo(n % LimbBits), Len(a), 0) \o [i \in 1..(n \div LimbBits) |-> 0]

\* <<floor(a / 2^n), whether a nonzero bit was shifted out>>
ShiftRight(a, n) ==
  LET \* d: the limbs not dropped whole, divided by the rest of the shift
      shifted(d, whole) ==
        <<Strip(SubSeq(d, 1, Len(d) - 1)),
          d[Len(d)] # 0 \/ \E i \in (Len(a) - whole + 1)..Len(a) : a[i] # 0>>
  IN  shifted(DivAt(SubSeq(a, 1, Len(a) - n \div LimbBits), TwoTo(n % LimbBits), 1, 0),
              n \div LimbBits)

(***************************************************************************)
(* binary64 values.                                                        *)
(***************************************************************************)
Zero == [s |-> 0, e |-> 0, m |-> <<>>]

\* the exact value  sign * mant * 2^e  rounded to 53 bits, ties to even
Round(sign, mant, e) ==
  LET IsOdd(b) == b # <<>> /\ b[Len(b)] % 2 = 1
      \* r: the 53 bits kept, after rounding; the carry of the rounding may
      \* have made them 54
      carried(r, drop) ==
        IF BitLen(r) > MantissaBits
          THEN [s |-> sign, e |-> e + drop + 1, m |-> ShiftRight(r, 1)[1]]
          ELSE [s |-> sign, e |-> e + drop, m |-> r]
      \* g: <<the 53 bits to keep and the guard bit after them, whether a
      \* nonzero bit lies below the guard bit>>
      nearest(g, keep, drop) ==
        carried(IF IsOdd(g[1]) /\ (g[2] \/ IsOdd(keep))
                  THEN Strip(AddNat(keep, <<1>>)) ELSE keep,
                drop)
      guarded(g, drop) == nearest(g, ShiftRight(g[1], 1)[1], drop)
      \* a: the mantissa without leading zero limbs, n: the number of its bits
      sized(a, n) ==
        IF n = 0 THEN Zero
        ELSE IF n <= MantissaBits
          THEN [s |-> sign, e |-> e - (MantissaBits - n),
                m |-> Strip(ShiftLeft(a, MantissaBits - n))]
        ELSE guarded(ShiftRight(a, n - MantissaBits - 1), n - MantissaBits)
      stripped(a) == sized(a, BitLen(a))
  IN  stripped(Strip(mant))

FromInt(n) == IF n < 0 THEN Round(-1, NatOf(-n), 0) ELSE Round(1, NatOf(n), 0)

Neg(x) == [x EXCEPT !.s = -x.s]

\* the exact sum of two values, as <<sign, mantissa, exponent>>
ExactSum(x, y) ==
  IF x.s = 0 THEN <<y.s, y.m, y.e>>
  ELSE IF y.s = 0 THEN <<x.s, x.m, x.e>>
  ELSE
    LET \* xm, ym: the mantissas brought to the common exponent e0
        compared(xm, ym, e0, c) ==
          IF x.s = y.s THEN <<x.s, AddNat(xm, ym), e0>>
          ELSE IF c = 0 THEN <<0, <<>>, 0>>
          ELSE IF c > 0 THEN <<x.s, SubNat(xm, ym), e0>>
          ELSE <<y.s, SubNat(ym, xm), e0>>
        aligned(xm, ym, e0) == compared(xm, ym, e0, CmpNat(xm, ym))
        common(e0) == aligned(ShiftLeft(x.m, x.e - e0), ShiftLeft(y.m, y.e - e0), e0)
    IN  common(IF x.e < y.e THEN x.e ELSE y.e)

FAdd(x, y) == LET rounded(t) == Round(t[1], t[2], t[3]) IN rounded(ExactSum(x, y))
FSub(x, y) == FAdd(x, Neg(y))

\* x / k for an integer k in 1..255: the quotient is carried to one limb more
\* than the dividend, and a nonzero remainder is kept as one more low bit
FDiv(x, k) ==
  IF x.s = 0 THEN Zero
  ELSE LET \* q: twice the quotient, r: the remainder
           sticky(q, r) == IF r = 0 THEN q ELSE [q EXCEPT ![Len(q)] = @ + 1]
           divided(d) ==
             sticky(MulAt(SubSeq(d, 1, Len(d) - 1), 2, Len(d) - 1, 0), d[Len(d)])
       IN  Round(x.s, divided(DivAt(Append(x.m, 0), k, 1, 0)), x.e - LimbBits - 1)

\* -1, 0 or 1 as x < y, x = y, x > y
FCmp(x, y) ==
  LET sign(t) == IF Strip(t[2]) = <<>> THEN 0 ELSE t[1] IN sign(ExactSum(x, Neg(y)))
FLt(x, y) == FCmp(x, y) < 0
FGt(x, y) == FCmp(x, y) > 0
FMin(x, y) == IF FLt(y, x) THEN y ELSE x
FMax(x, y) == IF FGt(y, x) THEN y ELSE x

\* n / k rounded to binary64.  A decimal literal such as 0.6 denotes the
\* binary64 value nearest to 6/10, which is Dec(6, 10)
Dec(n, k) == FDiv(FromInt(n), k)

(***************************************************************************)
(* Texts.  A text is a sequence of characters (one-character strings), so  *)
(* that the substring counting of the code is computed, not assumed.  The  *)
(* characters are those of Basic Latin and the Latin-1 Supplement.         *)
(***************************************************************************)
\* String.prototype.toLowerCase: the lower-case letter of each upper-case one
\* (A-Z, and U+00C0-U+00DE without the multiplication sign)
LowerOf ==
  LET UpperCase == <<"A","B","C","D","E","F","G","H","I","J","K","L","M","N","O",
                     "P","Q","R","S","T","U","V","W","X","Y","Z","À","Á","Â","Ã",
                     "Ä","Å","Æ","Ç","È","É","Ê","Ë","Ì","Í","Î","Ï","Ð","Ñ","Ò",
                     "Ó","Ô","Õ","Ö","Ø","Ù","Ú","Û","Ü","Ý","Þ">>
      LowerCase == <<"a","b","c","d","e","f","g","h","i","j","k","l","m","n","o",
                     "p","q","r","s","t","u","v","w","x","y","z","à","á","â","ã",
                     "ä","å","æ","ç","è","é","ê","ë","ì","í","î","ï","ð","ñ","ò",
                     "ó","ô","õ","ö","ø","ù","ú","û","ü","ý","þ">>
  IN  [c \in {UpperCase[k] : k \in 1..Len(UpperCase)} |->
         LowerCase[CHOOSE k \in 1..Len(UpperCase) : UpperCase[k] = c]]

\* the white space and line terminators String.prototype.trim strips: tab,
\* line feed, vertical tab, form feed, carriage return, space and the
\* no-break space U+00A0
WhiteSpace == {"\t", "\n", "", "\f", "\r", " ", " "}

toLowerCase(text) ==
  [i \in 1..Len(text) |->
     IF text[i] \in DOMAIN LowerOf THEN LowerOf[text[i]] ELSE text[i]]

\* indicator occurs in text at position i
MatchesAt(text, indicator, i) ==
  /\ i + Len(indicator) - 1 <= Len(text)
  /\ \A k \in 1..Len(indicator) : text[i + k - 1] = indicator[k]

\* text.split(indicator).length - 1, counted from position i on: the
\* occurrences of indicator found from left to right, each search starting
\* after the end of the occurrence before
RECURSIVE SplitCount(_, _, _)
SplitCount(text, indicator, i) ==
  LET found == {j \in i..Len(text) : MatchesAt(text, indicator, j)}
  IN  IF found = {} THEN 0
      ELSE LET first == CHOOSE j \in found : \A k \in found : j <= k
           IN  1 + SplitCount(text, indicator, first + Len(indicator))

\* indicators.reduce((count, indicator) =>
\*   count + (text.split(indicator).length - 1), 0)
RECURSIVE CountUpTo(_, _, _)
CountUpTo(text, indicators, n) ==
  IF n = 0 THEN 0
  ELSE CountUpTo(text, indicators, n - 1) + SplitCount(text, indicators[n], 1)

countIndicators(text, indicators) == CountUpTo(text, indicators, Len(indicators))

\* indicators.some((indicator) => text.toLowerCase().includes(indicator))
someIncluded(text, indicators) ==
  \E n \in 1..Len(indicators) : SplitCount(toLowerCase(text), indicators[n], 1) > 0

\* text.split(/[.!?]+/).filter((s) => s.trim().length > 0): the sentences are
\* the maximal runs of characters other than . ! ? that hold a character
\* other than white space; a sentence is <<first, last>>, the positions of
\* its first and last character
splitSentences(text) ==
  LET n == Len(text)
      SentenceEnd == {".", "!", "?"}
      starts == {i \in 1..n : text[i] \notin SentenceEnd
                              /\ (i = 1 \/ text[i - 1] \in SentenceEnd)}
      last(i) == CHOOSE j \in i..n :
                   /\ \A k \in i..j : text[k] \notin SentenceEnd
                   /\ (j = n \/ text[j + 1] \in SentenceEnd)
  IN  {r \in {<<i, last(i)>> : i \in starts} :
         \E k \in r[1]..r[2] : text[k] \notin WhiteSpace}

\* sentence.trim().length
trimmedLength(text, sentence) ==
  LET solid == {k \in sentence[1]..sentence[2] : text[k] \notin WhiteSpace}
      lo == CHOOSE k \in solid : \A j \in solid : k <= j
      hi == CHOOSE k \in solid : \A j \in solid : k >= j
  IN  hi - lo + 1

RECURSIVE SumOver(_, _)
SumOver(text, sentences) ==
  IF sentences = {} THEN 0
  ELSE LET s == CHOOSE x \in sentences : TRUE
       IN  trimmedLength(text, s) + SumOver(text, sentences \ {s})

EmptyText == <<>>

\* "Creo que el cambio climático es grave. Según un estudio, las temperaturas
\* subieron 2 grados."
EndToEndText ==
  << "C","r","e","o"," ","q","u","e"," ","e","l"," ","c","a","m","b","i",
     "o"," ","c","l","i","m","á","t","i","c","o"," ","e","s"," ","g","r",
     "a","v","e","."," ","S","e","g","ú","n"," ","u","n"," ","e","s","t",
     "u","d","i","o",","," ","l","a","s"," ","t","e","m","p","e","r","a",
     "t","u","r","a","s"," ","s","u","b","i","e","r","o","n"," ","2"," ",
     "g","r","a","d","o","s","." >>

(***************************************************************************)
(* The indicator tables of A2AAgent.                                       *)
(***************************************************************************)
\* introducción, en primer lugar, para comenzar, inicialmente
introIndicators ==
  << <<"i","n","t","r","o","d","u","c","c","i","ó","n">>,
     <<"e","n"," ","p","r","i","m","e","r"," ","l","u","g","a","r">>,
     <<"p","a","r","a"," ","c","o","m","e","n","z","a","r">>,
     <<"i","n","i","c","i","a","l","m","e","n","t","e">> >>

\* en conclusión, finalmente, para terminar, en resumen
conclusionIndicators ==
  << <<"e","n"," ","c","o","n","c","l","u","s","i","ó","n">>,
     <<"f","i","n","a","l","m","e","n","t","e">>,
     <<"p","a","r","a"," ","t","e","r","m","i","n","a","r">>,
     <<"e","n"," ","r","e","s","u","m","e","n">> >>

\* por lo tanto, en consecuencia, además, sin embargo, por otro lado
coherenceIndicators ==
  << <<"p","o","r"," ","l","o"," ","t","a","n","t","o">>,
     <<"e","n"," ","c","o","n","s","e","c","u","e","n","c","i","a">>,
     <<"a","d","e","m","á","s">>,
     <<"s","i","n"," ","e","m","b","a","r","g","o">>,
     <<"p","o","r"," ","o","t","r","o"," ","l","a","d","o">> >>

\* primero, segundo, tercero, finalmente, en primer lugar
structureIndicators ==
  << <<"p","r","i","m","e","r","o">>, <<"s","e","g","u","n","d","o">>,
     <<"t","e","r","c","e","r","o">>,
     <<"f","i","n","a","l","m","e","n","t","e">>,
     <<"e","n"," ","p","r","i","m","e","r"," ","l","u","g","a","r">> >>

\* creo que, mi opinión, considero, mi posición, estoy convencido
thesisIndicators ==
  << <<"c","r","e","o"," ","q","u","e">>,
     <<"m","i"," ","o","p","i","n","i","ó","n">>,
     <<"c","o","n","s","i","d","e","r","o">>,
     <<"m","i"," ","p","o","s","i","c","i","ó","n">>,
     <<"e","s","t","o","y"," ","c","o","n","v","e","n","c","i","d","o">> >>

\* analizar, examinar, investigar, profundizar, detallar
depthIndicators ==
  << <<"a","n","a","l","i","z","a","r">>, <<"e","x","a","m","i","n","a","r">>,
     <<"i","n","v","e","s","t","i","g","a","r">>,
     <<"p","r","o","f","u","n","d","i","z","a","r">>,
     <<"d","e","t","a","l","l","a","r">> >>

\* además, también, por otro lado, asimismo, igualmente
breadthIndicators ==
  << <<"a","d","e","m","á","s">>, <<"t","a","m","b","i","é","n">>,
     <<"p","o","r"," ","o","t","r","o"," ","l","a","d","o">>,
     <<"a","s","i","m","i","s","m","o">>,
     <<"i","g","u","a","l","m","e","n","t","e">> >>

\* por lo tanto, en consecuencia, esto demuestra, se puede concluir, debido a
connectionIndicators ==
  << <<"p","o","r"," ","l","o"," ","t","a","n","t","o">>,
     <<"e","n"," ","c","o","n","s","e","c","u","e","n","c","i","a">>,
     <<"e","s","t","o"," ","d","e","m","u","e","s","t","r","a">>,
     <<"s","e"," ","p","u","e","d","e"," ","c","o","n","c","l","u","i","r">>,
     <<"d","e","b","i","d","o"," ","a">> >>

\* todos, nunca, siempre, nadie, todo el mundo
fallacyIndicators ==
  << <<"t","o","d","o","s">>, <<"n","u","n","c","a">>,
     <<"s","i","e","m","p","r","e">>, <<"n","a","d","i","e">>,
     <<"t","o","d","o"," ","e","l"," ","m","u","n","d","o">> >>

\* según, fuente, referencia, cita, dice que, menciona
sourceIndicators ==
  << <<"s","e","g","ú","n">>, <<"f","u","e","n","t","e">>,
     <<"r","e","f","e","r","e","n","c","i","a">>, <<"c","i","t","a">>,
     <<"d","i","c","e"," ","q","u","e">>,
     <<"m","e","n","c","i","o","n","a">> >>

\* ¿, por qué, cómo, qué, cuándo, dónde
questionIndicators ==
  << <<"¿">>, <<"p","o","r"," ","q","u","é">>, <<"c","ó","m","o">>,
     <<"q","u","é">>, <<"c","u","á","n","d","o">>, <<"d","ó","n","d","e">> >>

\* analizar, examinar, investigar, estudiar, evaluar
analysisIndicators ==
  << <<"a","n","a","l","i","z","a","r">>, <<"e","x","a","m","i","n","a","r">>,
     <<"i","n","v","e","s","t","i","g","a","r">>,
     <<"e","s","t","u","d","i","a","r">>, <<"e","v","a","l","u","a","r">> >>

\* evaluar, juzgar, valorar, considerar, ponderar
evaluationIndicators ==
  << <<"e","v","a","l","u","a","r">>, <<"j","u","z","g","a","r">>,
     <<"v","a","l","o","r","a","r">>,
     <<"c","o","n","s","i","d","e","r","a","r">>,
     <<"p","o","n","d","e","r","a","r">> >>

\* sintetizar, combinar, integrar, unificar, consolidar
synthesisIndicators ==
  << <<"s","i","n","t","e","t","i","z","a","r">>,
     <<"c","o","m","b","i","n","a","r">>, <<"i","n","t","e","g","r","a","r">>,
     <<"u","n","i","f","i","c","a","r">>,
     <<"c","o","n","s","o","l","i","d","a","r">> >>

\* reflexionar, pensar sobre, considerar, meditar, contemplar
metacognitionIndicators ==
  << <<"r","e","f","l","e","x","i","o","n","a","r">>,
     <<"p","e","n","s","a","r"," ","s","o","b","r","e">>,
     <<"c","o","n","s","i","d","e","r","a","r">>,
     <<"m","e","d","i","t","a","r">>,
     <<"c","o","n","t","e","m","p","l","a","r">> >>

\* mi experiencia, creo que, pienso que, mi opinión, considero
personalIndicators ==
  << <<"m","i"," ","e","x","p","e","r","i","e","n","c","i","a">>,
     <<"c","r","e","o"," ","q","u","e">>,
     <<"p","i","e","n","s","o"," ","q","u","e">>,
     <<"m","i"," ","o","p","i","n","i","ó","n">>,
     <<"c","o","n","s","i","d","e","r","o">> >>

\* imaginemos, supongamos, crear, diseñar, innovar
creativeIndicators ==
  << <<"i","m","a","g","i","n","e","m","o","s">>,
     <<"s","u","p","o","n","g","a","m","o","s">>, <<"c","r","e","a","r">>,
     <<"d","i","s","e","ñ","a","r">>, <<"i","n","n","o","v","a","r">> >>

\* the entries of evidenceTypes in the order of its keys:
\* statistics: porcentaje, estadística, dato, cifra
\* examples: ejemplo, caso, instancia, muestra
\* quotes: cita, dice, menciona, afirma
\* references: según, fuente, referencia, estudio
evidenceTypes ==
  << <<"statistics",
       << <<"p","o","r","c","e","n","t","a","j","e">>,
          <<"e","s","t","a","d","í","s","t","i","c","a">>, <<"d","a","t","o">>,
          <<"c","i","f","r","a">> >> >>,
     <<"examples",
       << <<"e","j","e","m","p","l","o">>, <<"c","a","s","o">>,
          <<"i","n","s","t","a","n","c","i","a">>,
          <<"m","u","e","s","t","r","a">> >> >>,
     <<"quotes",
       << <<"c","i","t","a">>, <<"d","i","c","e">>,
          <<"m","e","n","c","i","o","n","a">>, <<"a","f","i","r","m","a">> >> >>,
     <<"references",
       << <<"s","e","g","ú","n">>, <<"f","u","e","n","t","e">>,
          <<"r","e","f","e","r","e","n","c","i","a">>,
          <<"e","s","t","u","d","i","o">> >> >> >>

(***************************************************************************)
(* class A2AAgent: the scoring helpers.                                    *)
(***************************************************************************)
One == FromInt(1)

\* the number of indicator occurrences in text.toLowerCase()
lowerCount(text, indicators) == countIndicators(toLowerCase(text), indicators)

\* Math.min(count / divisor, 1)
normalized(count, divisor) == FMin(FDiv(FromInt(count), divisor), One)

detectIntroduction(text) == someIncluded(text, introIndicators)
detectBody(text) == Len(text) > 100
detectConclusion(text) == someIncluded(text, conclusionIndicators)

calculateAverageSentenceLength(text, sentences) ==
  IF Cardinality(sentences) = 0 THEN Zero
  ELSE FDiv(FromInt(SumOver(text, sentences)), Cardinality(sentences))

assessCoherence(text) == normalized(lowerCount(text, coherenceIndicators), 3)
assessOrganization(text) == normalized(lowerCount(text, structureIndicators), 2)
detectThesis(text) == someIncluded(text, thesisIndicators)
assessThesisClarity(text) == IF detectThesis(text) THEN Dec(8, 10) ELSE Dec(3, 10)
assessTopicRelevance(text) == Dec(7, 10)
assessDepth(text) == normalized(lowerCount(text, depthIndicators), 2)
assessBreadth(text) == normalized(lowerCount(text, breadthIndicators), 3)
detectLogicalConnections(text) == lowerCount(text, connectionIndicators)
assessArgumentFlow(text) == normalized(detectLogicalConnections(text), 3)
assessConsistency(text) == Dec(7, 10)
detectFallacies(text) == lowerCount(text, fallacyIndicators)

assessReasoningQuality(text) ==
  LET connections == detectLogicalConnections(text)
      fallacies == detectFallacies(text)
  IN  FMax(Zero, FMin(One, FDiv(FromInt(connections - fallacies), 3)))

extractEvidenceIndicators(text) ==
  LET count(i) == lowerCount(text, evidenceTypes[i][2])
      found == {i \in 1..4 : count(i) > 0}
      nth(n) == CHOOSE i \in found : Cardinality({j \in found : j < i}) = n - 1
  IN  [count |-> count(1) + count(2) + count(3) + count(4),
       types |-> [n \in 1..Cardinality(found) |-> evidenceTypes[nth(n)][1]],
       details |-> [i \in found |-> count(i)]]

assessEvidenceQuality(text) == normalized(extractEvidenceIndicators(text).count, 5)

\* lines 563-576: the first method of this name in the class body.  The
\* method of the same name at lines 661-663 replaces it, so no call reaches it.
assessSourceDependencyShadowed(text) == normalized(lowerCount(text, sourceIndicators), 5)

assessEvidenceRelevance(text) == Dec(7, 10)
detectQuestioning(text) == lowerCount(text, questionIndicators)
detectAnalysis(text) == lowerCount(text, analysisIndicators)
detectEvaluation(text) == lowerCount(text, evaluationIndicators)
detectSynthesis(text) == lowerCount(text, synthesisIndicators)
detectMetacognition(text) == lowerCount(text, metacognitionIndicators)

calculateCriticalThinkingLevel(text) ==
  LET total == detectQuestioning(text) + detectAnalysis(text) + detectEvaluation(text)
               + detectSynthesis(text) + detectMetacognition(text)
  IN  normalized(total, 5)

(***************************************************************************)
(* A call either returns a value or throws.                                *)
(***************************************************************************)
\* the names of the properties every object inherits from Object.prototype:
\* object[name] finds them on an object literal that has no property of
\* that name, and each is a function or, for __proto__, Object.prototype
ObjectPrototype ==
  {"constructor", "__proto__", "hasOwnProperty", "isPrototypeOf",
   "propertyIsEnumerable", "toLocaleString", "toString", "valueOf",
   "__defineGetter__", "__defineSetter__", "__lookupGetter__",
   "__lookupSetter__"}

Returned(v) == [threw |-> FALSE, value |-> v]
Thrown(e) == [threw |-> TRUE, error |-> e]

\* The number of nested calls after which the engine throws RangeError
\* ("Maximum call stack size exceeded").
MaxCallStack == 8

\* lines 661-663: the method calls itself with the same argument; every call
\* nests one frame deeper until the call stack is exhausted
RECURSIVE assessSourceDependencyFrame(_, _)
assessSourceDependencyFrame(text, depth) ==
  IF depth > MaxCallStack
    THEN Thrown("RangeError: Maximum call stack size exceeded")
    ELSE assessSourceDependencyFrame(text, depth + 1)

assessSourceDependency(text) == assessSourceDependencyFrame(text, 1)

detectPersonalInsights(text) == lowerCount(text, personalIndicators)
detectCreativeElements(text) == lowerCount(text, creativeIndicators)

calculateOriginalityScore(text) ==
  LET sourceDependency == assessSourceDependency(text)
      personalInsights == detectPersonalInsights(text)
      creativeElements == detectCreativeElements(text)
  IN  IF sourceDependency.threw THEN sourceDependency
      ELSE Returned(FMax(Zero, FMin(One,
             FSub(FDiv(FromInt(personalInsights + creativeElements), 5),
                  sourceDependency.value))))

(***************************************************************************)
(* The six sub-analyses, each an async method.                             *)
(***************************************************************************)
analyzeStructure(text) ==
  LET sentences == splitSentences(text)
  IN  Returned([hasIntroduction |-> detectIntroduction(text),
                hasBody |-> detectBody(text),
                hasConclusion |-> detectConclusion(text),
                sentenceCount |-> Cardinality(sentences),
                averageSentenceLength |-> calculateAverageSentenceLength(text, sentences),
                coherence |-> assessCoherence(text),
                organization |-> assessOrganization(text)])

analyzeContent(text) ==
  Returned([hasThesis |-> detectThesis(text),
            thesisClarity |-> assessThesisClarity(text),
            topicRelevance |-> assessTopicRelevance(text),
            depth |-> assessDepth(text),
            breadth |-> assessBreadth(text)])

analyzeReasoning(text) ==
  Returned([logicalConnections |-> detectLogicalConnections(text),
            argumentFlow |-> assessArgumentFlow(text),
            consistency |-> assessConsistency(text),
            fallacies |-> detectFallacies(text),
            reasoningQuality |-> assessReasoningQuality(text)])

analyzeEvidence(text) ==
  LET evidenceIndicators == extractEvidenceIndicators(text)
      sourceDependency == assessSourceDependency(text)
  IN  IF sourceDependency.threw THEN sourceDependency
      ELSE Returned([evidenceCount |-> evidenceIndicators.count,
                     evidenceTypes |-> evidenceIndicators.types,
                     evidenceQuality |-> assessEvidenceQuality(text),
                     sourceDependency |-> sourceDependency.value,
                     evidenceRelevance |-> assessEvidenceRelevance(text)])

analyzeCriticalThinking(text) ==
  Returned([questioning |-> detectQuestioning(text),
            analysis |-> detectAnalysis(text),
            evaluation |-> detectEvaluation(text),
            synthesis |-> detectSynthesis(text),
            metacognition |-> detectMetacognition(text),
            overallLevel |-> calculateCriticalThinkingLevel(text)])

analyzeOriginality(text) ==
  LET sourceDependency == assessSourceDependency(text)
      originalityScore == calculateOriginalityScore(text)
  IN  IF sourceDependency.threw THEN sourceDependency
      ELSE IF originalityScore.threw THEN originalityScore
      ELSE Returned([sourceDependency |-> sourceDependency.value,
                     personalInsights |-> detectPersonalInsights(text),
                     creativeElements |-> detectCreativeElements(text),
                     originalityScore |-> originalityScore.value])

calculateOverallScores(analysis) ==
  [structure |-> FDiv(FAdd(analysis.structure.coherence,
                           analysis.structure.organization), 2),
   content |-> FDiv(FAdd(FAdd(analysis.content.thesisClarity, analysis.content.depth),
                         analysis.content.breadth), 3),
   reasoning |-> analysis.reasoning.reasoningQuality,
   evidence |-> FDiv(FAdd(analysis.evidence.evidenceQuality,
                          analysis.evidence.evidenceRelevance), 2),
   criticalThinking |-> analysis.criticalThinking.overallLevel,
   originality |-> analysis.originality.originalityScore,
   total |-> Zero]

(***************************************************************************)
(* Weaknesses, strengths, feedback, challenges and recommendations.        *)
(* A text built by a template literal is the sequence of its pieces.       *)
(***************************************************************************)
\* an identifyWeaknesses whose reasoning rule is reasoningQuality <= 0.6
identifyWeaknessesUpToThreshold(analysis) ==
  (IF FLt(analysis.content.thesisClarity, Dec(6, 10))
     THEN << [type |-> "thesis_weak", area |-> "Tesis",
              score |-> analysis.content.thesisClarity, priority |-> "high"] >>
     ELSE << >>)
  \o (IF analysis.evidence.evidenceCount < 2
        THEN << [type |-> "evidence_lacking", area |-> "Evidencia",
                 score |-> FDiv(FromInt(analysis.evidence.evidenceCount), 5),
                 priority |-> "medium"] >>
        ELSE << >>)
  \o (IF FGt(analysis.originality.sourceDependency, Dec(7, 10))
        THEN << [type |-> "source_dependency", area |-> "Originalidad",
                 score |-> FSub(One, analysis.originality.sourceDependency),
                 priority |-> "high"] >>
        ELSE << >>)
  \o (IF ~FGt(analysis.reasoning.reasoningQuality, Dec(6, 10))
        THEN << [type |-> "reasoning_weak", area |-> "Razonamiento",
                 score |-> analysis.reasoning.reasoningQuality,
                 priority |-> "medium"] >>
        ELSE << >>)
  \o (IF FLt(analysis.criticalThinking.overallLevel, Dec(5, 10))
        THEN << [type |-> "critical_thinking_low", area |-> "Pensamiento Crítico",
                 score |-> analysis.criticalThinking.overallLevel,
                 priority |-> "high"] >>
        ELSE << >>)

identifyWeaknesses(analysis) ==
  (IF FLt(analysis.content.thesisClarity, Dec(6, 10))
     THEN << [type |-> "thesis_weak", area |-> "Tesis",
              score |-> analysis.content.thesisClarity, priority |-> "high"] >>
     ELSE << >>)
  \o (IF analysis.evidence.evidenceCount < 2
        THEN << [type |-> "evidence_lacking", area |-> "Evidencia",
                 score |-> FDiv(FromInt(analysis.evidence.evidenceCount), 5),
                 priority |-> "medium"] >>
        ELSE << >>)
  \o (IF FGt(analysis.originality.sourceDependency, Dec(7, 10))
        THEN << [type |-> "source_dependency", area |-> "Originalidad",
                 score |-> FSub(One, analysis.originality.sourceDependency),
                 priority |-> "high"] >>
        ELSE << >>)
  \o (IF FLt(analysis.reasoning.reasoningQuality, Dec(6, 10))
        THEN << [type |-> "reasoning_weak", area |-> "Razonamiento",
                 score |-> analysis.reasoning.reasoningQuality,
                 priority |-> "medium"] >>
        ELSE << >>)
  \o (IF FLt(analysis.criticalThinking.overallLevel, Dec(5, 10))
        THEN << [type |-> "critical_thinking_low", area |-> "Pensamiento Crítico",
                 score |-> analysis.criticalThinking.overallLevel,
                 priority |-> "high"] >>
        ELSE << >>)

identifyStrengths(analysis) ==
  (IF FGt(analysis.content.thesisClarity, Dec(8, 10))
     THEN << [area |-> "Tesis",
              message |-> "Tu tesis está bien definida y clara",
              score |-> analysis.content.thesisClarity] >>
     ELSE << >>)
  \o (IF analysis.evidence.evidenceCount >= 3
        THEN << [area |-> "Evidencia",
                 message |-> "Incluyes buena cantidad de evidencia para respaldar tu argumento",
                 score |-> FDiv(FromInt(analysis.evidence.evidenceCount), 5)] >>
        ELSE << >>)
  \o (IF FGt(analysis.originality.originalityScore, Dec(6, 10))
        THEN << [area |-> "Originalidad",
                 message |-> "Tu análisis muestra pensamiento original y personal",
                 score |-> analysis.originality.originalityScore] >>
        ELSE << >>)
  \o (IF FGt(analysis.reasoning.reasoningQuality, Dec(8, 10))
        THEN << [area |-> "Razonamiento",
                 message |-> "Tu razonamiento es lógico y bien estructurado",
                 score |-> analysis.reasoning.reasoningQuality] >>
        ELSE << >>)

feedbackTemplates ==
  [thesis_weak |->
     [message |-> "Tu respuesta necesita una tesis más clara. ¿Cuál es tu posición principal sobre el tema?",
      suggestion |-> "Comienza con una declaración clara de tu posición",
      priority |-> "high"],
   evidence_lacking |->
     [message |-> "Necesitas más evidencia para respaldar tu argumento. ¿Qué datos o ejemplos puedes usar?",
      suggestion |-> "Incluye al menos 2-3 ejemplos específicos o datos relevantes",
      priority |-> "medium"],
   source_dependency |->
     [message |-> "Tu respuesta depende mucho de fuentes externas. ¿Cómo puedes desarrollar tu propio análisis?",
      suggestion |-> "Combina información de fuentes con tu propio razonamiento",
      priority |-> "high"],
   reasoning_weak |->
     [message |-> "Hay inconsistencias en tu razonamiento. Revisa las conexiones entre tus ideas.",
      suggestion |-> "Usa conectores lógicos para unir tus argumentos de manera coherente",
      priority |-> "medium"],
   critical_thinking_low |->
     [message |-> "Necesitas desarrollar más pensamiento crítico. ¿Qué preguntas puedes hacer sobre el tema?",
      suggestion |-> "Considera diferentes perspectivas y cuestiona las suposiciones",
      priority |-> "high"]]

\* a generatePersonalizedFeedback that praises before it criticises
generatePersonalizedFeedbackPraiseFirst(analysis, context) ==
  LET forWeakness(weakness, template) ==
        [type |-> weakness.type,
         message |-> <<template.message>>,
         suggestion |-> template.suggestion,
         priority |-> template.priority,
         area |-> weakness.area,
         score |-> weakness.score]
      forStrength(strength) ==
        [type |-> "strength",
         message |-> <<"Excelente trabajo en ", strength.area, ". ",
                       strength.message>>,
         suggestion |-> "Continúa desarrollando esta fortaleza",
         priority |-> "low",
         area |-> strength.area,
         score |-> strength.score]
      \* the strengths, then the weaknesses that have a template
      feedback(templated, strengths) ==
        [i \in 1..Len(strengths) |-> forStrength(strengths[i])]
        \o [i \in 1..Len(templated) |->
              forWeakness(templated[i], feedbackTemplates[templated[i].type])]
  IN  feedback(SelectSeq(identifyWeaknesses(analysis),
                         LAMBDA w : w.type \in DOMAIN feedbackTemplates),
               identifyStrengths(analysis))

generatePersonalizedFeedback(analysis, context) ==
  LET forWeakness(weakness, template) ==
        [type |-> weakness.type,
         message |-> <<template.message>>,
         suggestion |-> template.suggestion,
         priority |-> template.priority,
         area |-> weakness.area,
         score |-> weakness.score]
      forStrength(strength) ==
        [type |-> "strength",
         message |-> <<"Excelente trabajo en ", strength.area, ". ",
                       strength.message>>,
         suggestion |-> "Continúa desarrollando esta fortaleza",
         priority |-> "low",
         area |-> strength.area,
         score |-> strength.score]
      \* the weaknesses that have a template, then the strengths
      feedback(templated, strengths) ==
        [i \in 1..Len(templated) |->
           forWeakness(templated[i], feedbackTemplates[templated[i].type])]
        \o [i \in 1..Len(strengths) |-> forStrength(strengths[i])]
  IN  feedback(SelectSeq(identifyWeaknesses(analysis),
                         LAMBDA w : w.type \in DOMAIN feedbackTemplates),
               identifyStrengths(analysis))

challengeTemplates ==
  [thesis_weak |->
     [prompt |-> "Escribe una oración que exprese claramente tu posición principal sobre el tema",
      skill |-> "thesis_formation",
      hint |-> "Comienza con 'Mi posición es que...' o 'Creo que...'",
      criteria |-> "Debe ser una declaración clara y específica"],
   evidence_lacking |->
     [prompt |-> "Identifica 3 datos o ejemplos específicos que respalden tu argumento",
      skill |-> "evidence_gathering",
      hint |-> "Busca estadísticas, ejemplos concretos o casos específicos",
      criteria |-> "Deben ser relevantes y específicos al tema"],
   reasoning_weak |->
     [prompt |-> "Explica cómo una de tus ideas principales se conecta con otra",
      skill |-> "logical_connection",
      hint |-> "Usa palabras como 'por lo tanto', 'en consecuencia', 'esto demuestra'",
      criteria |-> "Debe mostrar una conexión lógica clara"],
   critical_thinking_low |->
     [prompt |-> "Formula 2 preguntas críticas sobre el tema que no hayas considerado",
      skill |-> "critical_questioning",
      hint |-> "Pregunta sobre suposiciones, alternativas o implicaciones",
      criteria |-> "Deben ser preguntas que requieran análisis profundo"]]

\* the challenge for a weakness as a sequence of one element, or the empty
\* sequence where the method returns null; time is Date.now() and random
\* the suffix drawn from Math.random()
\* challengeTemplates[weakness.type] also finds the properties the object
\* inherits from Object.prototype: each is an object or a function, truthy,
\* whose prompt, skill, hint and criteria are undefined, << >>
createMicroChallenge(weakness, context, time, random) ==
  LET challenge(prompt, skill, hint, criteria) ==
        << [id |-> <<"challenge_", time, "_", random>>,
            type |-> weakness.type,
            prompt |-> prompt,
            skill |-> skill,
            hint |-> hint,
            criteria |-> criteria,
            priority |-> weakness.priority,
            estimatedTime |-> "5-10 minutos"] >>
  IN  IF weakness.type \in DOMAIN challengeTemplates
        THEN LET template == challengeTemplates[weakness.type]
             IN  challenge(template.prompt, template.skill, template.hint,
                           template.criteria)
      ELSE IF weakness.type \in ObjectPrototype
        THEN challenge(<< >>, << >>, << >>, << >>)
      ELSE << >>

\* draws[i] is the Math.random() suffix of the i-th createMicroChallenge call
generateMicroChallenges(analysis, context, time, draws) ==
  LET \* the challenges that are not null, in the order of their weaknesses
      challenges(made) ==
        LET unwrap(kept) == [n \in 1..Len(kept) |-> kept[n][1]]
        IN  unwrap(SelectSeq(made, LAMBDA challenge : challenge # << >>))
      each(weaknesses) ==
        challenges([i \in 1..Len(weaknesses) |->
                      createMicroChallenge(weaknesses[i], context, time, draws[i])])
  IN  each(identifyWeaknesses(analysis))

generateRecommendations(analysis) ==
  (IF FLt(analysis.structure.coherence, Dec(6, 10))
     THEN << [area |-> "Estructura",
              action |-> "Usa un esquema antes de escribir para organizar tus ideas",
              priority |-> "high"] >>
     ELSE << >>)
  \o (IF FLt(analysis.content.thesisClarity, Dec(6, 10))
        THEN << [area |-> "Contenido",
                 action |-> "Define claramente tu tesis principal al inicio",
                 priority |-> "high"] >>
        ELSE << >>)
  \o (IF FLt(analysis.reasoning.reasoningQuality, Dec(6, 10))
        THEN << [area |-> "Razonamiento",
                 action |-> "Practica conectar ideas usando conectores lógicos",
                 priority |-> "medium"] >>
        ELSE << >>)
  \o (IF analysis.evidence.evidenceCount < 2
        THEN << [area |-> "Evidencia",
                 action |-> "Incluye más ejemplos específicos y datos relevantes",
                 priority |-> "medium"] >>
        ELSE << >>)

(***************************************************************************)
(* Progress tracking over this.analysisHistory, a Map from session id to   *)
(* an array of entries; map is the value of that Map.                      *)
(***************************************************************************)
\* a slice that runs to the end of the array whatever end is
sliceToEnd(array, start, end) ==
  LET len == Len(array)
      from == IF len + start > 0 THEN len + start ELSE 0
  IN  SubSeq(array, from + 1, len)

\* array.slice(start, end) for start < 0 and end <= 0, where end = 0 stands
\* for the omitted end (slice(-3))
slice(array, start, end) ==
  LET len == Len(array)
      from == IF len + start > 0 THEN len + start ELSE 0
      to == IF end = 0 THEN len ELSE IF len + end > 0 THEN len + end ELSE 0
  IN  SubSeq(array, from + 1, to)

\* a store that puts the new entry at the front of the list
storeAnalysisFirst(map, sessionId, analysis, feedback, time) ==
  LET created == IF sessionId \in DOMAIN map THEN map
                 ELSE [s \in DOMAIN map \cup {sessionId} |->
                         IF s = sessionId THEN << >> ELSE map[s]]
  IN  [created EXCEPT ![sessionId] =
         <<[timestamp |-> time, analysis |-> analysis, feedback |-> feedback]>> \o @]

\* a store that appends the new entry to the list of every session
storeAnalysisEverySession(map, sessionId, analysis, feedback, time) ==
  [s \in DOMAIN map \cup {sessionId} |->
     Append(IF s \in DOMAIN map THEN map[s] ELSE << >>,
            [timestamp |-> time, analysis |-> analysis, feedback |-> feedback])]

storeAnalysis(map, sessionId, analysis, feedback, time) ==
  LET created == IF sessionId \in DOMAIN map THEN map
                 ELSE [s \in DOMAIN map \cup {sessionId} |->
                         IF s = sessionId THEN << >> ELSE map[s]]
  IN  [created EXCEPT ![sessionId] =
         Append(@, [timestamp |-> time, analysis |-> analysis, feedback |-> feedback])]

\* the reduce of calculateAverageScore over the first n entries, from 0
RECURSIVE totalScore(_, _)
totalScore(analyses, n) ==
  IF n = 0 THEN Zero
  ELSE FAdd(totalScore(analyses, n - 1), analyses[n].analysis.overall.total)

calculateAverageScore(analyses) ==
  IF Len(analyses) = 0 THEN Zero
  ELSE FDiv(totalScore(analyses, Len(analyses)), Len(analyses))

\* a trend whose thresholds take in 0.1 and -0.1
trendOfInclusive(improvement) ==
  IF ~FLt(improvement, Dec(1, 10)) THEN "improving"
  ELSE IF ~FGt(improvement, Neg(Dec(1, 10))) THEN "declining"
  ELSE "stable"

trendOf(improvement) ==
  IF FGt(improvement, Dec(1, 10)) THEN "improving"
  ELSE IF FLt(improvement, Neg(Dec(1, 10))) THEN "declining"
  ELSE "stable"

calculateProgress(map, sessionId) ==
  IF sessionId \notin DOMAIN map \/ Len(map[sessionId]) < 2
    THEN [trend |-> "insufficient_data", improvement |-> Zero]
    ELSE LET result(recentAvg, olderAvg, improvement) ==
               [trend |-> trendOf(improvement),
                improvement |-> improvement,
                currentScore |-> recentAvg,
                previousScore |-> olderAvg]
             difference(recentAvg, olderAvg) ==
               result(recentAvg, olderAvg, FSub(recentAvg, olderAvg))
             compare(recent, older) ==
               IF Len(older) = 0
                 THEN [trend |-> "insufficient_data", improvement |-> Zero]
                 ELSE difference(calculateAverageScore(recent),
                                 calculateAverageScore(older))
         IN  compare(slice(map[sessionId], -3, 0), slice(map[sessionId], -6, -3))

(***************************************************************************)
(* State.                                                                  *)
(***************************************************************************)
VARIABLES
  analysisHistory,  \* A2AAgent.analysisHistory: session id -> array of entries
  now,              \* the value Date.now() returns
  calls,            \* the analyzeArgument invocations and where each is suspended
  lastCall,         \* the latest direct call of storeAnalysis or calculateProgress
  subject,          \* the Analysis handed to the weakness and strength rules
  classified,       \* what identifyWeaknesses and identifyStrengths returned for it
  agents,           \* MCP.agents: agent id -> registration
  contexts,         \* MCP.contexts: session id -> context
  messageQueue,     \* MCP.messageQueue
  sends,            \* the sendMessage invocations, by index of their message
  running           \* the invocation whose synchronous run is under way, or 0

vars == <<analysisHistory, now, calls, lastCall, subject, classified,
          agents, contexts, messageQueue, sends, running>>

a2aVars == <<analysisHistory, calls, lastCall, subject, classified>>
mcpVars == <<agents, contexts, messageQueue, sends, running>>

MaxCalls == 2
MaxClock == 1
MaxHistory == 6
MaxTracked == 5

(***************************************************************************)
(* analyzeArgument, one step per resumption.  pc names what the invocation *)
(* awaits; awaited is the completion of the awaited promise, and at the    *)
(* end the completion of the invocation itself.                            *)
(***************************************************************************)
\* the sub-analyses in the order performArgumentAnalysis awaits them
Stages == <<"structure", "content", "reasoning", "evidence", "criticalThinking",
            "originality">>

runStage(stage, text) ==
  CASE stage = "structure" -> analyzeStructure(text)
    [] stage = "content" -> analyzeContent(text)
    [] stage = "reasoning" -> analyzeReasoning(text)
    [] stage = "evidence" -> analyzeEvidence(text)
    [] stage = "criticalThinking" -> analyzeCriticalThinking(text)
    [] stage = "originality" -> analyzeOriginality(text)

\* performArgumentAnalysis resumed with the completion of the sub-analysis
\* it awaits: a rejection rejects its own promise; a value is kept under the
\* stage's key, and the next sub-analysis is called or the Analysis returned
performArgumentAnalysis(call) ==
  LET return(analysis) ==
        [call EXCEPT !.analysis = analysis,
                     !.pc = "performArgumentAnalysis",
                     !.awaited = Returned(analysis)]
      withOverall(done, overall) ==
        return([key \in DOMAIN done \cup {"overall"} |->
                  IF key = "overall" THEN overall ELSE done[key]])
      \* k stages are done, with the values done
      continue(k, done) ==
        IF k < Len(Stages)
          THEN [call EXCEPT !.analysis = done,
                            !.pc = Stages[k + 1],
                            !.awaited = runStage(Stages[k + 1], call.studentText)]
          ELSE withOverall(done, calculateOverallScores(done))
      resumed(k) ==
        continue(k, [key \in {Stages[n] : n \in 1..k} |->
                       IF key = call.pc THEN call.awaited.value
                       ELSE call.analysis[key]])
  IN  IF call.awaited.threw
        THEN [call EXCEPT !.pc = "performArgumentAnalysis"]
        ELSE resumed(CHOOSE n \in 1..Len(Stages) : Stages[n] = call.pc)

Idle == [pc |-> "idle"]

\* the call of analyzeArgument(studentText, context) up to its first await
AnalyzeArgument(c, studentText, context) ==
  /\ calls[c].pc = "idle"
  /\ calls' = [calls EXCEPT ![c] =
       [pc |-> Stages[1],
        studentText |-> studentText,
        context |-> context,
        awaited |-> runStage(Stages[1], studentText),
        analysis |-> << >>,
        feedback |-> << >>,
        microChallenges |-> << >>]]
  /\ UNCHANGED <<analysisHistory, now, lastCall, subject, classified>>
  /\ UNCHANGED mcpVars

RandomSuffixes == {"k3x9a", "p0q7m"}

\* an invocation runs from the await it is suspended at to the next one, or
\* to its end
Resume(c) ==
  LET call == calls[c]
  IN  /\ call.pc \notin {"idle", "resolved", "rejected"}
      /\ IF call.pc \in {Stages[n] : n \in 1..Len(Stages)}
           THEN /\ calls' = [calls EXCEPT ![c] = performArgumentAnalysis(call)]
                /\ UNCHANGED analysisHistory
         ELSE IF call.pc = "performArgumentAnalysis"
           THEN /\ calls' = [calls EXCEPT ![c] =
                     IF call.awaited.threw
                       THEN [call EXCEPT !.pc = "rejected"]
                       ELSE [call EXCEPT
                               !.pc = "generatePersonalizedFeedback",
                               !.awaited = Returned(generatePersonalizedFeedback(
                                             call.analysis, call.context))]]
                /\ UNCHANGED analysisHistory
         ELSE IF call.pc = "generatePersonalizedFeedback"
           THEN /\ calls' \in
                     { [calls EXCEPT ![c] =
                          [call EXCEPT
                             !.feedback = call.awaited.value,
                             !.pc = "generateMicroChallenges",
                             !.awaited = Returned(generateMicroChallenges(
                                           call.analysis, call.context, now, draws))]] :
                       draws \in [1..5 -> RandomSuffixes] }
                /\ UNCHANGED analysisHistory
         ELSE LET stored == storeAnalysis(analysisHistory, call.context.sessionId,
                                          call.analysis, call.feedback, now)
              IN  /\ analysisHistory' = stored
                  /\ calls' = [calls EXCEPT ![c] =
                       [call EXCEPT
                          !.microChallenges = call.awaited.value,
                          !.pc = "resolved",
                          !.awaited = Returned(
                            [analysis |-> call.analysis,
                             feedback |-> call.feedback,
                             microChallenges |-> call.awaited.value,
                             recommendations |-> generateRecommendations(call.analysis),
                             progress |-> calculateProgress(
                                            stored, call.context.sessionId)])]]
      /\ UNCHANGED <<now, lastCall, subject, classified>>
      /\ UNCHANGED mcpVars

(***************************************************************************)
(* Direct calls of the progress tracker.                                   *)
(***************************************************************************)
\* an Analysis of which only overall.total is given
analysisOf(tenths) == [overall |-> [total |-> Dec(tenths, 10)]]

historyOf(map, sessionId) ==
  IF sessionId \in DOMAIN map THEN map[sessionId] ELSE << >>

StoreAnalysis(sessionId, analysis) ==
  /\ analysisHistory' = storeAnalysis(analysisHistory, sessionId, analysis, << >>, now)
  /\ lastCall' = [op |-> "storeAnalysis", sessionId |-> sessionId]
  /\ UNCHANGED <<now, calls, subject, classified>>
  /\ UNCHANGED mcpVars

CalculateProgress(sessionId) ==
  /\ lastCall' = [op |-> "calculateProgress", sessionId |-> sessionId,
                  value |-> calculateProgress(analysisHistory, sessionId)]
  /\ UNCHANGED <<analysisHistory, now, calls, subject, classified>>
  /\ UNCHANGED mcpVars

\* time passes
Tick ==
  /\ now < MaxClock
  /\ now' = now + 1
  /\ UNCHANGED a2aVars
  /\ UNCHANGED mcpVars

(***************************************************************************)
(* Direct calls of the weakness and strength rules on one Analysis.        *)
(***************************************************************************)
IdentifyWeaknesses ==
  /\ "identifyWeaknesses" \notin DOMAIN classified
  /\ classified' = [op \in DOMAIN classified \cup {"identifyWeaknesses"} |->
                      IF op = "identifyWeaknesses" THEN identifyWeaknesses(subject)
                      ELSE classified[op]]
  /\ UNCHANGED <<analysisHistory, now, calls, lastCall, subject>>
  /\ UNCHANGED mcpVars

IdentifyStrengths ==
  /\ "identifyStrengths" \notin DOMAIN classified
  /\ classified' = [op \in DOMAIN classified \cup {"identifyStrengths"} |->
                      IF op = "identifyStrengths" THEN identifyStrengths(subject)
                      ELSE classified[op]]
  /\ UNCHANGED <<analysisHistory, now, calls, lastCall, subject>>
  /\ UNCHANGED mcpVars

(***************************************************************************)
(* class MCP: the learning-style detector.                                 *)
(***************************************************************************)
\* veo, visualizar, imagen, diagrama, gráfico, color, forma, dibujo,
\* esquema, mapa, foto, ilustración, ver, mirar
visualIndicators ==
  << <<"v","e","o">>, <<"v","i","s","u","a","l","i","z","a","r">>,
     <<"i","m","a","g","e","n">>, <<"d","i","a","g","r","a","m","a">>,
     <<"g","r","á","f","i","c","o">>, <<"c","o","l","o","r">>,
     <<"f","o","r","m","a">>, <<"d","i","b","u","j","o">>,
     <<"e","s","q","u","e","m","a">>, <<"m","a","p","a">>,
     <<"f","o","t","o">>, <<"i","l","u","s","t","r","a","c","i","ó","n">>,
     <<"v","e","r">>, <<"m","i","r","a","r">> >>

\* escucho, sonido, música, hablar, discutir, debate, conversación,
\* audio, podcast, explicar, contar, narrar, oír, escuchar
auditoryIndicators ==
  << <<"e","s","c","u","c","h","o">>, <<"s","o","n","i","d","o">>,
     <<"m","ú","s","i","c","a">>, <<"h","a","b","l","a","r">>,
     <<"d","i","s","c","u","t","i","r">>, <<"d","e","b","a","t","e">>,
     <<"c","o","n","v","e","r","s","a","c","i","ó","n">>,
     <<"a","u","d","i","o">>, <<"p","o","d","c","a","s","t">>,
     <<"e","x","p","l","i","c","a","r">>, <<"c","o","n","t","a","r">>,
     <<"n","a","r","r","a","r">>, <<"o","í","r">>,
     <<"e","s","c","u","c","h","a","r">> >>

\* leer, escribir, texto, libro, artículo, ensayo, notas, resumen, lista,
\* palabras, vocabulario, definir, explicar por escrito
readingIndicators ==
  << <<"l","e","e","r">>, <<"e","s","c","r","i","b","i","r">>,
     <<"t","e","x","t","o">>, <<"l","i","b","r","o">>,
     <<"a","r","t","í","c","u","l","o">>, <<"e","n","s","a","y","o">>,
     <<"n","o","t","a","s">>, <<"r","e","s","u","m","e","n">>,
     <<"l","i","s","t","a">>, <<"p","a","l","a","b","r","a","s">>,
     <<"v","o","c","a","b","u","l","a","r","i","o">>,
     <<"d","e","f","i","n","i","r">>,
     <<"e","x","p","l","i","c","a","r"," ","p","o","r"," ","e","s","c","r","i","t","o">> >>

\* hacer, experimentar, práctica, manos, tocar, construir, crear,
\* movimiento, actividad, proyecto, manipular, jugar, actuar
kinestheticIndicators ==
  << <<"h","a","c","e","r">>,
     <<"e","x","p","e","r","i","m","e","n","t","a","r">>,
     <<"p","r","á","c","t","i","c","a">>, <<"m","a","n","o","s">>,
     <<"t","o","c","a","r">>, <<"c","o","n","s","t","r","u","i","r">>,
     <<"c","r","e","a","r">>, <<"m","o","v","i","m","i","e","n","t","o">>,
     <<"a","c","t","i","v","i","d","a","d">>,
     <<"p","r","o","y","e","c","t","o">>,
     <<"m","a","n","i","p","u","l","a","r">>, <<"j","u","g","a","r">>,
     <<"a","c","t","u","a","r">> >>

\* a detection that returns the leading style from a count of 1 on
detectLearningStyleFromOne(message) ==
  IF message.kind # "string" THEN << >>
  ELSE
    LET text == toLowerCase(message.text)
        keys == <<"visual", "auditory", "reading", "kinesthetic">>
        scores == [visual |-> countIndicators(text, visualIndicators),
                   auditory |-> countIndicators(text, auditoryIndicators),
                   reading |-> countIndicators(text, readingIndicators),
                   kinesthetic |-> countIndicators(text, kinestheticIndicators)]
        reduce[n \in 1..4] ==
          IF n = 1 THEN keys[1]
          ELSE IF scores[reduce[n - 1]] > scores[keys[n]] THEN reduce[n - 1]
          ELSE keys[n]
    IN  IF \E k \in DOMAIN scores : scores[k] >= 1 THEN <<reduce[4]>> ELSE << >>

\* a detection in which the earlier of two styles with equal counts wins
detectLearningStyleFirstWins(message) ==
  IF message.kind # "string" THEN << >>
  ELSE
    LET text == toLowerCase(message.text)
        keys == <<"visual", "auditory", "reading", "kinesthetic">>
        scores == [visual |-> countIndicators(text, visualIndicators),
                   auditory |-> countIndicators(text, auditoryIndicators),
                   reading |-> countIndicators(text, readingIndicators),
                   kinesthetic |-> countIndicators(text, kinestheticIndicators)]
        reduce[n \in 1..4] ==
          IF n = 1 THEN keys[1]
          ELSE IF scores[reduce[n - 1]] >= scores[keys[n]] THEN reduce[n - 1]
          ELSE keys[n]
    IN  IF \E k \in DOMAIN scores : scores[k] >= 2 THEN <<reduce[4]>> ELSE << >>

\* A message is a string, [kind |-> "string", text |-> characters], or the
\* object the endpoints pass, [kind |-> "object", message |-> ..., context |-> ...].
\* A value that may be null or undefined is a sequence of at most one element.
detectLearningStyle(message) ==
  IF message.kind # "string" THEN << >>
  ELSE
    LET keys == <<"visual", "auditory", "reading", "kinesthetic">>
        \* Object.keys(scores).reduce(...) and Math.max(...Object.values(scores))
        leading(scores) ==
          LET reduce[n \in 1..4] ==
                IF n = 1 THEN keys[1]
                ELSE IF scores[reduce[n - 1]] > scores[keys[n]] THEN reduce[n - 1]
                ELSE keys[n]
              maxScore == CHOOSE m \in {scores[k] : k \in DOMAIN scores} :
                            \A k \in DOMAIN scores : scores[k] <= m
          IN  IF maxScore >= 2 THEN <<reduce[4]>> ELSE << >>
        \* the scores of the lower-cased text, each counted once
        counted ==
          { [visual |-> countIndicators(text, visualIndicators),
             auditory |-> countIndicators(text, auditoryIndicators),
             reading |-> countIndicators(text, readingIndicators),
             kinesthetic |-> countIndicators(text, kinestheticIndicators)] :
            text \in {toLowerCase(message.text)} }
    IN  CHOOSE style \in { leading(scores) : scores \in counted } : TRUE

(***************************************************************************)
(* class MCP: registry, contexts and the methods that call the database.   *)
(* undefined and null are << >>, a value v that may be either is <<v>>.     *)
(***************************************************************************)
registerAgent(map, agentId, agentConfig, time) ==
  (agentId :> [id |-> agentId, config |-> agentConfig, status |-> "active",
               lastActivity |-> time]) @@ map

setContext(map, sessionId, context, time) ==
  (sessionId :> (("lastUpdated" :> time)
                 @@ ("version" :> (IF sessionId \in DOMAIN map
                                     THEN map[sessionId].version ELSE 0) + 1)
                 @@ context)) @@ map

getContext(map, sessionId) ==
  IF sessionId \in DOMAIN map THEN <<map[sessionId]>> ELSE << >>

\* ToBoolean of a string, a number or a boolean: "", 0 and false are falsy
truthy(value) == ToString(value) \notin {ToString(""), ToString(0), ToString(FALSE)}

\* getEstiloIdByName, storeLearningStyle and getStudentLearningStyles resumed
\* once the database call they await has settled with outcome, [error |-> e]
\* or [data |-> row] when the client resolves, [thrown |-> e] when it rejects:
\* what the method returns and what it writes with console.error.  Each
\* method catches every failure.
getEstiloIdByName(outcome) ==
  IF "thrown" \in DOMAIN outcome
    THEN [value |-> << >>, logged |-> <<"[MCP] Error in getEstiloIdByName:">>]
  ELSE IF "error" \in DOMAIN outcome
    THEN [value |-> << >>, logged |-> <<"[MCP] Error getting estilo ID:">>]
  ELSE [value |-> <<outcome.data.id_estilo>>, logged |-> << >>]

\* the row storeLearningStyle gives to upsert once getEstiloIdByName has
\* returned idEstilo
upsertRow(studentId, learningStyle, idEstilo) ==
  [id_estudiante |-> studentId,
   id_estilo_principal |-> idEstilo,
   fortalezas |-> <<"Detectado automáticamente: ", learningStyle>>,
   debilidades |-> "Por determinar"]

storeLearningStyle(outcome) ==
  [value |-> << >>,
   logged |-> IF "thrown" \in DOMAIN outcome
                THEN <<"[MCP] Error in storeLearningStyle:">>
              ELSE IF "error" \in DOMAIN outcome
                THEN <<"[MCP] Error storing learning style:">>
              ELSE << >>]

getStudentLearningStyles(outcome) ==
  IF "thrown" \in DOMAIN outcome
    THEN [value |-> << >>, logged |-> <<"[MCP] Error in getStudentLearningStyles:">>]
  ELSE IF "error" \in DOMAIN outcome
    THEN [value |-> << >>, logged |-> <<"[MCP] Error getting learning style:">>]
  ELSE [value |-> <<[estilo_detectado |-> outcome.data.estilos_aprendizaje.nombre,
                     descripcion |-> outcome.data.estilos_aprendizaje.descripcion,
                     fortalezas |-> outcome.data.fortalezas,
                     debilidades |-> outcome.data.debilidades]>>,
        logged |-> << >>]

\* context.studentId where it is truthy
studentIdOf(context) ==
  IF "studentId" \in DOMAIN context[1] /\ truthy(context[1].studentId)
    THEN <<context[1].studentId>> ELSE << >>

\* the analysis and suggestions of the response are computed from the text
\* alone and are not carried here
studentResponse(payload, learningStyle) ==
  [type |-> "student_response",
   learningStyle |-> learningStyle,
   context |-> payload.context]

(***************************************************************************)
(* The async methods.  An invocation of sendMessage is a stack of frames,  *)
(* sendMessage, processMessage, executeAgentAction, a handler and the      *)
(* methods it calls; only the innermost frame can run.  A frame is a       *)
(* record: pc names the method that runs next and line the line it starts  *)
(* or resumes at, awaited is the settled promise it waits for (Returned or *)
(* Thrown), issued tells whether the database request a method waits for   *)
(* has been sent, and the locals a method holds across its awaits are      *)
(* fields of their own.  A handler is an operator on the frame: it runs    *)
(* from frame.line to the next await and gives the frame suspended there,  *)
(* or Returned or Thrown when the handler ends.                            *)
(***************************************************************************)
handleStudentAgent(frame) ==
  LET message == frame.payload.message
      context == frame.payload.context
  IN  CASE frame.line = 132 ->
             \* analyzeStudentArgument(message), whose detectThesis calls
             \* text.includes; the analysis is not carried
             [pc |-> "handleStudentAgent", line |-> 136,
              awaited |-> IF message.kind = "string"
                            THEN Returned(<< >>)
                            ELSE Thrown("text.includes is not a function")]
        [] frame.line = 136 ->
             IF frame.awaited.threw
               THEN frame.awaited
               ELSE [pc |-> "handleStudentAgent", line |-> 139,
                     awaited |-> Returned(detectLearningStyle(message))]
        [] frame.line = 139 ->
             LET learningStyle == frame.awaited.value
             IN  IF learningStyle = << >>
                   THEN Returned(studentResponse(frame.payload, learningStyle))
                 ELSE IF context = << >>
                   THEN Thrown("Cannot read properties of undefined (reading 'studentId')")
                 ELSE IF studentIdOf(context) = << >>
                   THEN Returned(studentResponse(frame.payload, learningStyle))
                 \* storeLearningStyle runs to its call of getEstiloIdByName,
                 \* which runs to its await of the select it has built
                 ELSE [pc |-> "getEstiloIdByName", line |-> 724, issued |-> FALSE,
                       learningStyle |-> learningStyle[1]]
        [] frame.line = 143 ->
             Returned(studentResponse(frame.payload, <<frame.learningStyle>>))

\* requirements.title || "Actividad Inclusiva": a string has no title
titleOf(requirements) ==
  IF /\ requirements.kind = "object"
     /\ "title" \in DOMAIN requirements
     /\ truthy(requirements.title)
    THEN requirements.title ELSE "Actividad Inclusiva"

\* the adaptations of the response are computed from the activity and the
\* learning styles and are not carried here
handleTeacherAgent(frame) ==
  LET message == frame.payload.message
      context == frame.payload.context
  IN  CASE frame.line = 156 ->
             IF context = << >>
               THEN Thrown("Cannot read properties of undefined (reading 'studentId')")
             \* getStudentLearningStyles: if (!studentId) return null
             ELSE IF studentIdOf(context) = << >>
               THEN [pc |-> "handleTeacherAgent", line |-> 160,
                     awaited |-> Returned(<< >>)]
             \* getStudentLearningStyles runs to its await of the select
             ELSE [pc |-> "getStudentLearningStyles", line |-> 685,
                   issued |-> FALSE]
        [] frame.line = 160 ->
             [pc |-> "handleTeacherAgent", line |-> 165,
              studentLearningStyles |-> frame.awaited.value,
              awaited |-> Returned([title |-> titleOf(message)])]
        [] frame.line = 165 ->
             [pc |-> "handleTeacherAgent", line |-> 168,
              studentLearningStyles |-> frame.studentLearningStyles,
              activity |-> frame.awaited.value,
              awaited |-> Returned(<< >>)]
        [] frame.line = 168 ->
             Returned([type |-> "teacher_response",
                       activity |-> frame.activity,
                       studentLearningStyles |-> frame.studentLearningStyles,
                       context |-> context])

\* analyzeArgumentStructure(message) calls text.toLowerCase; the analysis is
\* not carried
handleA2AAgent(frame) ==
  CASE frame.line = 184 ->
         [pc |-> "handleA2AAgent", line |-> 188,
          awaited |-> IF frame.payload.message.kind = "string"
                        THEN Returned(<< >>)
                        ELSE Thrown("text.toLowerCase is not a function")]
    [] frame.line = 188 ->
         IF frame.awaited.threw
           THEN frame.awaited
           ELSE Returned([type |-> "a2a_response",
                          context |-> frame.payload.context])

\* performDeepAnalysis(message, context) calls text.toLowerCase; the analysis
\* is not carried
handleAnalysisAgent(frame) ==
  CASE frame.line = 200 ->
         [pc |-> "handleAnalysisAgent", line |-> 204,
          awaited |-> IF frame.payload.message.kind = "string"
                        THEN Returned(<< >>)
                        ELSE Thrown("text.toLowerCase is not a function")]
    [] frame.line = 204 ->
         IF frame.awaited.threw
           THEN frame.awaited
           ELSE Returned([type |-> "analysis_response",
                          context |-> frame.payload.context])

\* the line on which the switch of executeAgentAction awaits the handler of
\* each agent it has a handler for
HandlerAwaitedAt ==
  ("student-agent" :> 119) @@ ("teacher-agent" :> 121)
  @@ ("a2a-agent" :> 123) @@ ("analysis-agent" :> 125)

\* the agents executeAgentAction has a handler for
RoleAgents == DOMAIN HandlerAwaitedAt

\* return await this.handle...Agent(payload), where handler is what the run
\* of the handler gave: executeAgentAction goes on waiting while the handler
\* is suspended, and is the frame to resume once the handler has ended
awaitHandler(agentId, handler) ==
  IF "threw" \in DOMAIN handler
    THEN [pc |-> "executeAgentAction", line |-> HandlerAwaitedAt[agentId],
          awaited |-> handler]
    ELSE handler

\* an executeAgentAction that records the activity of an agent only when
\* the agent has a role handler
executeAgentActionActivityOfHandled(map, agentId, payload, time) ==
  IF agentId \notin DOMAIN map
    THEN [agents |-> map, run |-> Thrown(<<"Agent ", agentId, " not found">>)]
  ELSE
    LET called == [payload |-> payload]
    IN  [agents |-> IF agentId \in RoleAgents
                      THEN [map EXCEPT ![agentId].lastActivity = time]
                      ELSE map,
         run |->
           CASE agentId = "student-agent" ->
                  awaitHandler(agentId, handleStudentAgent(called @@ [line |-> 132]))
             [] agentId = "teacher-agent" ->
                  awaitHandler(agentId, handleTeacherAgent(called @@ [line |-> 156]))
             [] agentId = "a2a-agent" ->
                  awaitHandler(agentId, handleA2AAgent(called @@ [line |-> 184]))
             [] agentId = "analysis-agent" ->
                  awaitHandler(agentId, handleAnalysisAgent(called @@ [line |-> 200]))
             [] OTHER -> Thrown(<<"Unknown agent type: ", agentId>>)]

\* executeAgentAction from its call to its first await or to its throw, with
\* the agents of map at time: agents is the map it leaves, run the frame
\* suspended at the await, or Thrown when executeAgentAction has thrown
executeAgentAction(map, agentId, payload, time) ==
  IF agentId \notin DOMAIN map
    THEN [agents |-> map, run |-> Thrown(<<"Agent ", agentId, " not found">>)]
  ELSE
    LET called == [payload |-> payload]
    IN  [agents |-> [map EXCEPT ![agentId].lastActivity = time],
         run |->
           CASE agentId = "student-agent" ->
                  awaitHandler(agentId, handleStudentAgent(called @@ [line |-> 132]))
             [] agentId = "teacher-agent" ->
                  awaitHandler(agentId, handleTeacherAgent(called @@ [line |-> 156]))
             [] agentId = "a2a-agent" ->
                  awaitHandler(agentId, handleA2AAgent(called @@ [line |-> 184]))
             [] agentId = "analysis-agent" ->
                  awaitHandler(agentId, handleAnalysisAgent(called @@ [line |-> 200]))
             [] OTHER -> Thrown(<<"Unknown agent type: ", agentId>>)]

\* a processMessage that puts a message whose handling failed back to pending
processMessageRequeued(messageObj, completion) ==
  IF completion.threw
    THEN [message |-> ("error" :> completion.error)
                      @@ [messageObj EXCEPT !.status = "pending"],
          result |-> [success |-> FALSE, messageId |-> messageObj.id,
                      error |-> completion.error]]
    ELSE [message |-> ("response" :> completion.value)
                      @@ [messageObj EXCEPT !.status = "completed"],
          result |-> [success |-> TRUE, messageId |-> messageObj.id,
                      response |-> completion.value]]

\* processMessage once the agent lookup has failed or executeAgentAction has
\* settled: the message and the result sendMessage returns
processMessage(messageObj, completion) ==
  IF completion.threw
    THEN [message |-> ("error" :> completion.error)
                      @@ [messageObj EXCEPT !.status = "failed"],
          result |-> [success |-> FALSE, messageId |-> messageObj.id,
                      error |-> completion.error]]
    ELSE [message |-> ("response" :> completion.value)
                      @@ [messageObj EXCEPT !.status = "completed"],
          result |-> [success |-> TRUE, messageId |-> messageObj.id,
                      response |-> completion.value]]

(***************************************************************************)
(* The router's operations.  A synchronous run is not interleaved with any *)
(* other operation: running names the invocation that holds the thread.    *)
(* Every other action is one resumption of one frame, between two returns  *)
(* to the event loop, and anything else that is queued can run between two *)
(* of them.  An invocation also carries what its methods have written with *)
(* console.error (logged) and the database requests it has sent            *)
(* (requests).                                                             *)
(***************************************************************************)
MaxMessages == 2
MaxVersion == 2

RegisterAgent(agentId, agentConfig) ==
  /\ running = 0
  /\ agents' = registerAgent(agents, agentId, agentConfig, now)
  /\ UNCHANGED <<contexts, messageQueue, sends, running, now>>
  /\ UNCHANGED a2aVars

SetContext(sessionId, context) ==
  /\ running = 0
  /\ sessionId \in DOMAIN contexts => contexts[sessionId].version < MaxVersion
  /\ contexts' = setContext(contexts, sessionId, context, now)
  /\ UNCHANGED <<agents, messageQueue, sends, running, now>>
  /\ UNCHANGED a2aVars

\* sendMessage up to its call of processMessage
SendMessage(fromAgentId, toAgentId, message, sessionId, random) ==
  /\ running = 0
  /\ Len(messageQueue) < MaxMessages
  /\ messageQueue' = Append(messageQueue,
       [id |-> <<"msg_", now, "_", random>>,
        from |-> fromAgentId,
        to |-> toAgentId,
        sessionId |-> sessionId,
        content |-> message,
        timestamp |-> now,
        status |-> "pending"])
  /\ sends' = Append(sends, [pc |-> "processMessage", line |-> 59,
                             logged |-> << >>, requests |-> << >>])
  /\ running' = Len(messageQueue) + 1
  /\ UNCHANGED <<agents, contexts, now>>
  /\ UNCHANGED a2aVars

\* what an invocation keeps whichever frame runs
kept(frame) ==
  [field \in DOMAIN frame \cap {"payload", "logged", "requests"} |-> frame[field]]

\* the synchronous run of sendMessage from its call of processMessage on:
\* processMessage to its return (agent not found) or to its await of
\* executeAgentAction, and executeAgentAction to its throw (no role handler)
\* or, through the handler and what the handler calls, to the first await
ProcessMessage(i) ==
  /\ running = i
  /\ sends[i].pc = "processMessage"
  /\ sends[i].line = 59
  /\ LET messageObj == messageQueue[i]
     IN  IF messageObj.to \notin DOMAIN agents
           THEN LET settled == processMessage(messageObj,
                                 Thrown(<<"Agent ", messageObj.to, " not found">>))
                IN  /\ messageQueue' = [messageQueue EXCEPT ![i] = settled.message]
                    /\ sends' = [sends EXCEPT ![i] =
                                   [pc |-> "sendMessage", line |-> 55,
                                    result |-> settled.result] @@ kept(sends[i])]
                    /\ UNCHANGED agents
           ELSE LET payload == [message |-> messageObj.content,
                                context |-> getContext(contexts, messageObj.sessionId),
                                metadata |-> [from |-> messageObj.from,
                                              sessionId |-> messageObj.sessionId,
                                              timestamp |-> messageObj.timestamp]]
                IN  \E called \in {executeAgentAction(agents, messageObj.to,
                                                      payload, now)} :
                      /\ messageQueue' = [messageQueue EXCEPT ![i].status = "processing"]
                      /\ agents' = called.agents
                      /\ sends' = [sends EXCEPT ![i] =
                           (IF "threw" \in DOMAIN called.run
                              THEN [pc |-> "processMessage", line |-> 84,
                                    awaited |-> called.run]
                              ELSE called.run)
                           @@ [payload |-> payload] @@ kept(sends[i])]
  /\ running' = 0
  /\ UNCHANGED <<contexts, now>>
  /\ UNCHANGED a2aVars

\* a HandlerRuns whose handler reads the context stored for the session at
\* the moment it resumes
HandlerRunsWithStoredContext(i) ==
  /\ running = 0
  /\ sends[i].pc \in {"handleStudentAgent", "handleTeacherAgent",
                      "handleA2AAgent", "handleAnalysisAgent"}
  /\ LET frame == [sends[i] EXCEPT
                    !.payload.context =
                       getContext(contexts, messageQueue[i].sessionId)]
     IN  \E handler \in
              { CASE frame.pc = "handleStudentAgent" -> handleStudentAgent(frame)
                  [] frame.pc = "handleTeacherAgent" -> handleTeacherAgent(frame)
                  [] frame.pc = "handleA2AAgent" -> handleA2AAgent(frame)
                  [] frame.pc = "handleAnalysisAgent" -> handleAnalysisAgent(frame) } :
           sends' = [sends EXCEPT ![i] =
                       awaitHandler(messageQueue[i].to, handler) @@ kept(sends[i])]
  /\ UNCHANGED <<agents, contexts, messageQueue, running, now>>
  /\ UNCHANGED a2aVars

\* a handler resumed at one of its awaits, run to its next await, to the
\* await of the method it calls, or to its end
HandlerRuns(i) ==
  /\ running = 0
  /\ sends[i].pc \in {"handleStudentAgent", "handleTeacherAgent",
                      "handleA2AAgent", "handleAnalysisAgent"}
  /\ LET frame == sends[i]
     IN  \E handler \in
              { CASE frame.pc = "handleStudentAgent" -> handleStudentAgent(frame)
                  [] frame.pc = "handleTeacherAgent" -> handleTeacherAgent(frame)
                  [] frame.pc = "handleA2AAgent" -> handleA2AAgent(frame)
                  [] frame.pc = "handleAnalysisAgent" -> handleAnalysisAgent(frame) } :
           sends' = [sends EXCEPT ![i] =
                       awaitHandler(messageQueue[i].to, handler) @@ kept(sends[i])]
  /\ UNCHANGED <<agents, contexts, messageQueue, running, now>>
  /\ UNCHANGED a2aVars

\* what the database call awaited in each method can settle with
ExternalOutcomes ==
  [getEstiloIdByName |->
     { [error |-> "fetch failed"], [thrown |-> "fetch failed"],
       [data |-> [id_estilo |-> 1]] },
   storeLearningStyle |->
     { [error |-> "fetch failed"], [thrown |-> "fetch failed"],
       [data |-> [status |-> 201]] },
   getStudentLearningStyles |->
     { [error |-> "fetch failed"], [thrown |-> "fetch failed"],
       [data |-> [estilos_aprendizaje |-> [nombre |-> "visual",
                                           descripcion |-> "Aprende viendo"],
                  fortalezas |-> "Detectado automáticamente: visual",
                  debilidades |-> "Por determinar"]] }]

AnyOutcome == UNION { ExternalOutcomes[call] : call \in DOMAIN ExternalOutcomes }

\* the query a method awaits is a thenable: its then, which sends the
\* request, is called in the run after the one that built the query
RequestIssued(i) ==
  /\ running = 0
  /\ sends[i].pc \in DOMAIN ExternalOutcomes
  /\ sends[i].line \in {648, 685, 724}
  /\ ~sends[i].issued
  /\ LET request ==
           [getEstiloIdByName |-> "estilos_aprendizaje.select",
            storeLearningStyle |-> "perfil_aprendizaje_estudiante.upsert",
            getStudentLearningStyles |-> "perfil_aprendizaje_estudiante.select"]
     IN  sends' = [sends EXCEPT ![i].issued = TRUE,
                                ![i].requests = Append(@, request[sends[i].pc])]
  /\ UNCHANGED <<agents, contexts, messageQueue, running, now>>
  /\ UNCHANGED a2aVars

\* a database request settles and the method that awaits it runs to its
\* end: it writes what it logs and returns to the frame that awaits it,
\* getEstiloIdByName to storeLearningStyle, storeLearningStyle to
\* handleStudentAgent, getStudentLearningStyles to handleTeacherAgent
ExternalCallSettles(i, outcome) ==
  /\ running = 0
  /\ sends[i].pc \in DOMAIN ExternalOutcomes
  /\ sends[i].line \in {648, 685, 724}
  /\ sends[i].issued
  /\ outcome \in ExternalOutcomes[sends[i].pc]
  /\ LET frame == sends[i]
         returns(settled, caller) ==
           caller @@ [awaited |-> Returned(settled.value),
                      logged |-> frame.logged \o settled.logged]
                  @@ kept(frame)
     IN  sends' = [sends EXCEPT ![i] =
           CASE frame.pc = "getEstiloIdByName" ->
                  returns(getEstiloIdByName(outcome),
                          [pc |-> "storeLearningStyle", line |-> 653,
                           learningStyle |-> frame.learningStyle])
             [] frame.pc = "storeLearningStyle" ->
                  returns(storeLearningStyle(outcome),
                          [pc |-> "handleStudentAgent", line |-> 143,
                           learningStyle |-> frame.learningStyle])
             [] frame.pc = "getStudentLearningStyles" ->
                  returns(getStudentLearningStyles(outcome),
                          [pc |-> "handleTeacherAgent", line |-> 160])]
  /\ UNCHANGED <<agents, contexts, messageQueue, running, now>>
  /\ UNCHANGED a2aVars

\* storeLearningStyle resumed with what getEstiloIdByName returned, run to
\* its await of the upsert it has built
StoreLearningStyleResumed(i) ==
  /\ running = 0
  /\ sends[i].pc = "storeLearningStyle"
  /\ sends[i].line = 653
  /\ sends' = [sends EXCEPT ![i] =
       [pc |-> "storeLearningStyle", line |-> 648, issued |-> FALSE,
        learningStyle |-> sends[i].learningStyle,
        row |-> upsertRow(studentIdOf(sends[i].payload.context)[1],
                          sends[i].learningStyle,
                          sends[i].awaited.value)]
       @@ kept(sends[i])]
  /\ UNCHANGED <<agents, contexts, messageQueue, running, now>>
  /\ UNCHANGED a2aVars

\* executeAgentAction resumed after its await of the handler: it returns
\* what the handler returned, or throws what the handler threw
ExecuteAgentActionResumed(i) ==
  /\ running = 0
  /\ sends[i].pc = "executeAgentAction"
  /\ sends' = [sends EXCEPT ![i] =
       [pc |-> "processMessage", line |-> 84, awaited |-> sends[i].awaited]
       @@ kept(sends[i])]
  /\ UNCHANGED <<agents, contexts, messageQueue, running, now>>
  /\ UNCHANGED a2aVars

\* processMessage resumed after its await of executeAgentAction, to its
\* return
ProcessMessageResumed(i) ==
  /\ running = 0
  /\ sends[i].pc = "processMessage"
  /\ sends[i].line = 84
  /\ LET settled == processMessage(messageQueue[i], sends[i].awaited)
     IN  /\ messageQueue' = [messageQueue EXCEPT ![i] = settled.message]
         /\ sends' = [sends EXCEPT ![i] =
              [pc |-> "sendMessage", line |-> 55, result |-> settled.result]
              @@ kept(sends[i])]
  /\ UNCHANGED <<agents, contexts, running, now>>
  /\ UNCHANGED a2aVars

\* sendMessage resumed after its await of processMessage: it returns the
\* result
SendMessageReturns(i) ==
  /\ running = 0
  /\ sends[i].pc = "sendMessage"
  /\ sends' = [sends EXCEPT ![i].pc = "returned"]
  /\ UNCHANGED <<agents, contexts, messageQueue, running, now>>
  /\ UNCHANGED a2aVars

(***************************************************************************)
(* The server after start-up (index.js): one MCP with the four role agents *)
(* registered, one A2AAgent with an empty history.                         *)
(***************************************************************************)
StartUp ==
  /\ analysisHistory = << >>
  /\ now = 0
  /\ calls = [c \in 1..MaxCalls |-> Idle]
  /\ lastCall = [op |-> "none"]
  /\ classified = << >>
  /\ agents = registerAgent(registerAgent(registerAgent(registerAgent(<< >>,
                "student-agent", [type |-> "student"], 0),
                "teacher-agent", [type |-> "teacher"], 0),
                "a2a-agent", [type |-> "a2a"], 0),
                "analysis-agent", [type |-> "analysis"], 0)
  /\ contexts = << >>
  /\ messageQueue = << >>
  /\ sends = << >>
  /\ running = 0

Init == StartUp /\ subject = << >>

Sessions == {"s1", "s2"}

(***************************************************************************)
(* Concurrent analyzeArgument calls.                                       *)
(***************************************************************************)
CallTexts == {EmptyText, EndToEndText}

NextCalls ==
  \/ \E c \in 1..MaxCalls, studentText \in CallTexts, sessionId \in Sessions :
       AnalyzeArgument(c, studentText, [sessionId |-> sessionId])
  \/ \E c \in 1..MaxCalls : Resume(c)

SpecCalls == Init /\ [][NextCalls]_vars

(***************************************************************************)
(* The progress of one session, over totals given in tenths.               *)
(***************************************************************************)
ProgressTotals == {0, 2, 8}

NextProgress ==
  \/ /\ Len(historyOf(analysisHistory, "s1")) < MaxHistory
     /\ \E tenths \in ProgressTotals : StoreAnalysis("s1", analysisOf(tenths))
  \/ CalculateProgress("s1")

SpecProgress == Init /\ [][NextProgress]_vars

(***************************************************************************)
(* The histories of two sessions as time passes.                           *)
(***************************************************************************)
TrackerTotals == {2, 8}

NextTracker ==
  \/ /\ Len(historyOf(analysisHistory, "s1")) + Len(historyOf(analysisHistory, "s2"))
          < MaxTracked
     /\ \E sessionId \in Sessions, tenths \in TrackerTotals :
          StoreAnalysis(sessionId, analysisOf(tenths))
  \/ \E sessionId \in Sessions : CalculateProgress(sessionId)
  \/ Tick

SpecTracker == Init /\ [][NextTracker]_vars

(***************************************************************************)
(* The weakness and strength rules on Analyses of the scorer's value grid. *)
(***************************************************************************)
Subjects ==
  { [structure |-> [coherence |-> Dec(coherence, 3)],
     content |-> [thesisClarity |-> Dec(thesis, 10)],
     evidence |-> [evidenceCount |-> evidence],
     originality |-> [sourceDependency |-> Dec(source, 5),
                      originalityScore |-> Dec(original, 5)],
     reasoning |-> [reasoningQuality |-> Dec(reasoning, 3)],
     criticalThinking |-> [overallLevel |-> Dec(level, 5)]] :
    coherence \in {2}, thesis \in {3, 8}, evidence \in {1, 2, 3},
    source \in {3, 4}, original \in {3, 4}, reasoning \in {1, 2, 3},
    level \in {2, 3} }

InitClassifier == StartUp /\ subject \in Subjects

NextClassifier == IdentifyWeaknesses \/ IdentifyStrengths

SpecClassifier == InitClassifier /\ [][NextClassifier]_vars

(***************************************************************************)
(* Messages through the router.                                            *)
(***************************************************************************)
\* "veo la imagen"
StyledText == <<"v","e","o"," ","l","a"," ","i","m","a","g","e","n">>

Messages ==
  { [kind |-> "string", text |-> StyledText],
    [kind |-> "string", text |-> EmptyText],
    [kind |-> "object", message |-> StyledText, context |-> [studentId |-> "st1"]] }

AgentIds == {"student-agent", "teacher-agent", "a2a-agent", "analysis-agent",
             "custom-agent", "ghost-agent"}

ContextInputs == { [studentId |-> "st1"], [studentId |-> ""], [topic |-> "t1"] }


NextRouter ==
  \/ RegisterAgent("custom-agent", [type |-> "custom"])
  \/ \E context \in ContextInputs : SetContext("s1", context)
  \/ \E toAgentId \in AgentIds, message \in Messages :
       SendMessage("system", toAgentId, message, "s1", "k3x9a")
  \/ \E i \in 1..Len(sends) : ProcessMessage(i)
  \/ \E i \in 1..Len(sends) : HandlerRuns(i)
  \/ \E i \in 1..Len(sends) : RequestIssued(i)
  \/ \E i \in 1..Len(sends), outcome \in AnyOutcome : ExternalCallSettles(i, outcome)
  \/ \E i \in 1..Len(sends) : StoreLearningStyleResumed(i)
  \/ \E i \in 1..Len(sends) : ExecuteAgentActionResumed(i)
  \/ \E i \in 1..Len(sends) : ProcessMessageResumed(i)
  \/ \E i \in 1..Len(sends) : SendMessageReturns(i)

SpecRouter == Init /\ [][NextRouter]_vars

(***************************************************************************)
(* Properties.                                                             *)
(***************************************************************************)
\* the fields of an Analysis that hold a score, and those that hold a count
ScoreFields ==
  [structure |-> {"averageSentenceLength", "coherence", "organization"},
   content |-> {"thesisClarity", "topicRelevance", "depth", "breadth"},
   reasoning |-> {"argumentFlow", "consistency", "reasoningQuality"},
   evidence |-> {"evidenceQuality", "sourceDependency", "evidenceRelevance"},
   criticalThinking |-> {"overallLevel"},
   originality |-> {"sourceDependency", "originalityScore"},
   overall |-> {"structure", "content", "reasoning", "evidence",
                "criticalThinking", "originality", "total"}]

CountFields ==
  [structure |-> {"sentenceCount"},
   content |-> {},
   reasoning |-> {"logicalConnections", "fallacies"},
   evidence |-> {"evidenceCount"},
   criticalThinking |-> {"questioning", "analysis", "evaluation", "synthesis",
                         "metacognition"},
   originality |-> {"personalInsights", "creativeElements"},
   overall |-> {}]

\* C1: every analyzeArgument call ends by returning a result made of the
\* five parts analysis, feedback, microChallenges, recommendations and
\* progress, and the source-dependency helper returns for the call's text
\* instead of calling itself until the call stack is exhausted.
C1_AnalyzeArgumentReturnsFiveParts ==
  \A c \in 1..MaxCalls :
    calls[c].pc # "idle" =>
      /\ ~assessSourceDependency(calls[c].studentText).threw
      /\ calls[c].pc # "rejected"
      /\ calls[c].pc = "resolved" =>
           DOMAIN calls[c].awaited.value =
             {"analysis", "feedback", "microChallenges", "recommendations", "progress"}

\* C2: the analysis of the empty text goes through without an error, and
\* every sub-score and every overall value it produces is 0.
C2_EmptyTextScoresAllZero ==
  \A c \in 1..MaxCalls :
    (calls[c].pc # "idle" /\ calls[c].studentText = EmptyText) =>
      /\ calls[c].pc # "rejected"
      /\ ~calls[c].awaited.threw
      /\ \A key \in DOMAIN calls[c].analysis :
           \A field \in ScoreFields[key] : calls[c].analysis[key][field] = Zero

\* C3: for every text, the analysis goes through and every numeric metric of
\* the six sub-records, counts included, and every value of overall lies in
\* the interval [0, 1].
C3_MetricsWithinUnitInterval ==
  \A c \in 1..MaxCalls :
    calls[c].pc # "idle" =>
      /\ calls[c].pc # "rejected"
      /\ ~calls[c].awaited.threw
      /\ \A key \in DOMAIN calls[c].analysis :
           /\ \A field \in ScoreFields[key] :
                /\ ~FLt(calls[c].analysis[key][field], Zero)
                /\ ~FGt(calls[c].analysis[key][field], One)
           /\ \A field \in CountFields[key] :
                calls[c].analysis[key][field] \in 0..1

\* C4: for every Analysis, no category is reported both by identifyWeaknesses
\* and by identifyStrengths.
C4_NoCategoryBothWeakAndStrong ==
  {"identifyWeaknesses", "identifyStrengths"} \subseteq DOMAIN classified =>
    LET weaknesses == classified["identifyWeaknesses"]
        strengths == classified["identifyStrengths"]
    IN  {weaknesses[i].area : i \in 1..Len(weaknesses)}
          \cap {strengths[i].area : i \in 1..Len(strengths)} = {}

\* C5: with at least 4 entries in the history, calculateProgress returns the
\* mean total of the last 3 entries as currentScore, the mean total of the up
\* to 3 entries before them as previousScore and their difference as
\* improvement; the trend is improving when improvement > 0.1, declining when
\* improvement < -0.1 and stable otherwise, so stable at exactly 0.1 and at
\* exactly -0.1; the totals 0.2, 0.2, 0.2, 0.8, 0.8, 0.8 give improving with
\* an improvement of 0.6 up to the rounding of the sums.
C5_ProgressTrend ==
  (/\ lastCall.op = "calculateProgress"
   /\ Len(historyOf(analysisHistory, lastCall.sessionId)) >= 4) =>
    LET history == analysisHistory[lastCall.sessionId]
        n == Len(history)
        total(i) == history[i].analysis.overall.total
        recentMean == FDiv(FAdd(FAdd(total(n - 2), total(n - 1)), total(n)), 3)
        olderMean ==
          CASE n = 4 -> total(1)
            [] n = 5 -> FDiv(FAdd(total(1), total(2)), 2)
            [] OTHER -> FDiv(FAdd(FAdd(total(n - 5), total(n - 4)), total(n - 3)), 3)
        improvement == FSub(recentMean, olderMean)
        tenth == Dec(1, 10)
        offBy == FSub(lastCall.value.improvement, Dec(6, 10))
        rounding == FDiv(FDiv(FDiv(FDiv(One, 100), 100), 100), 100)
    IN  /\ lastCall.value.currentScore = recentMean
        /\ lastCall.value.previousScore = olderMean
        /\ lastCall.value.improvement = improvement
        /\ lastCall.value.trend =
             IF FGt(improvement, tenth) THEN "improving"
             ELSE IF FLt(improvement, Neg(tenth)) THEN "declining"
             ELSE "stable"
        /\ improvement \in {tenth, Neg(tenth)} => lastCall.value.trend = "stable"
        /\ [i \in 1..n |-> total(i)] =
             <<Dec(2, 10), Dec(2, 10), Dec(2, 10), Dec(8, 10), Dec(8, 10), Dec(8, 10)>> =>
             /\ lastCall.value.trend = "improving"
             /\ FLt(offBy, rounding)
             /\ FGt(offBy, Neg(rounding))

C5_SixEntriesImproving ==
  /\ lastCall.op = "calculateProgress"
  /\ Len(historyOf(analysisHistory, lastCall.sessionId)) = 6
  /\ \A i \in 1..6 :
       analysisHistory[lastCall.sessionId][i].analysis.overall.total =
         Dec(IF i <= 3 THEN 2 ELSE 8, 10)
  /\ lastCall.value.trend = "improving"

\* C6: calculateProgress returns {trend: insufficient_data, improvement: 0}
\* for a session without history and for a history of 1, 2 or 3 entries; it
\* returns a computed trend from 4 entries on.
C6_InsufficientDataBelowFourEntries ==
  lastCall.op = "calculateProgress" =>
    IF Len(historyOf(analysisHistory, lastCall.sessionId)) < 4
      THEN lastCall.value = [trend |-> "insufficient_data", improvement |-> Zero]
      ELSE lastCall.value.trend \in {"improving", "declining", "stable"}

C6_ThreeEntriesInsufficient ==
  /\ lastCall.op = "calculateProgress"
  /\ Len(historyOf(analysisHistory, lastCall.sessionId)) = 3
  /\ lastCall.value.trend = "insufficient_data"

\* C7: a history changes only by storeAnalysis appending one entry at its
\* end: no step removes, reorders or replaces an entry, the timestamps of a
\* history never decrease along the list, and calculateProgress leaves every
\* history as it was.
C7_HistoryAppendOnly ==
  /\ [](\A s \in DOMAIN analysisHistory :
          \A i \in 1..(Len(analysisHistory[s]) - 1) :
            analysisHistory[s][i].timestamp <= analysisHistory[s][i + 1].timestamp)
  /\ [][/\ DOMAIN analysisHistory \subseteq DOMAIN analysisHistory'
        /\ \A s \in DOMAIN analysisHistory' :
             LET old == historyOf(analysisHistory, s)
                 new == analysisHistory'[s]
             IN  \/ new = old
                 \/ /\ Len(new) = Len(old) + 1
                    /\ SubSeq(new, 1, Len(old)) = old
                    /\ lastCall'.op = "storeAnalysis"
                    /\ lastCall'.sessionId = s
        /\ lastCall'.op = "calculateProgress" => analysisHistory' = analysisHistory
       ]_vars

C7_TwoEntriesInTimeOrder ==
  /\ lastCall.op = "calculateProgress"
  /\ \E s \in DOMAIN analysisHistory :
       /\ Len(analysisHistory[s]) >= 2
       /\ analysisHistory[s][1].timestamp < analysisHistory[s][2].timestamp
       /\ analysisHistory[s][1].analysis # analysisHistory[s][2].analysis

\* C8: every analyzeArgument call that has completed has added exactly one
\* entry to the history of its session: under any interleaving, a session's
\* history holds as many entries as calls for that session have completed.
C8_OneEntryPerCompletedCall ==
  \A s \in Sessions :
    Len(historyOf(analysisHistory, s)) =
      Cardinality({c \in 1..MaxCalls :
                     /\ calls[c].pc \in {"resolved", "rejected"}
                     /\ calls[c].context.sessionId = s})

\* C9: storing an analysis for one session leaves the history of every other
\* session as it was, and what calculateProgress returns for a session is
\* what it returns when that session's history is the only one there is.
C9_SessionsIndependent ==
  /\ [](lastCall.op = "calculateProgress" =>
          lastCall.value =
            calculateProgress(
              [s \in DOMAIN analysisHistory \cap {lastCall.sessionId} |->
                 analysisHistory[s]],
              lastCall.sessionId))
  /\ [][analysisHistory' # analysisHistory =>
          /\ lastCall'.op = "storeAnalysis"
          /\ \A s \in Sessions \ {lastCall'.sessionId} :
               /\ s \in DOMAIN analysisHistory' <=> s \in DOMAIN analysisHistory
               /\ historyOf(analysisHistory', s) = historyOf(analysisHistory, s)
       ]_vars

C9_TrendBesideAnotherSession ==
  /\ lastCall.op = "calculateProgress"
  /\ lastCall.value.trend = "improving"
  /\ \E s \in DOMAIN analysisHistory :
       /\ s # lastCall.sessionId
       /\ Len(analysisHistory[s]) >= 1
       /\ analysisHistory[s][1].analysis
            # analysisHistory[lastCall.sessionId][1].analysis

\* C10: a message enters the queue as pending; its status only moves from
\* pending to processing and from processing to completed or failed, or from
\* pending to failed when the target agent is not registered; a completed or
\* failed message keeps its status, and no message leaves the queue.
C10_MessageStatusTransitions ==
  [][/\ Len(messageQueue') >= Len(messageQueue)
     /\ \A i \in 1..Len(messageQueue') :
          IF i > Len(messageQueue)
            THEN messageQueue'[i].status = "pending"
            ELSE LET before == messageQueue[i].status
                     after == messageQueue'[i].status
                 IN  \/ after = before
                     \/ before = "pending" /\ after = "processing"
                     \/ before = "processing" /\ after \in {"completed", "failed"}
                     \/ /\ before = "pending" /\ after = "failed"
                        /\ messageQueue[i].to \notin DOMAIN agents
    ]_vars

C10_CompletedAndFailedMessages ==
  /\ Len(messageQueue) = 2
  /\ messageQueue[1].status = "completed"
  /\ messageQueue[2].status = "failed"
  /\ messageQueue[2].to \in DOMAIN agents

\* C11: a sendMessage to an agent that is not registered returns
\* {success: false, messageId, error}; the step that finds the agent missing
\* takes the message from pending to failed, runs no handler, and leaves the
\* agent registry, every context and every other message as they were, and
\* so does the step in which sendMessage returns the result.
C11_UnknownAgentFailsWithoutEffects ==
  [][\A i \in 1..Len(sends) :
       LET result == [success |-> FALSE,
                      messageId |-> messageQueue[i].id,
                      error |-> <<"Agent ", messageQueue[i].to, " not found">>]
           awaiting == [pc |-> "sendMessage", line |-> 55, result |-> result,
                        logged |-> << >>, requests |-> << >>]
       IN  /\ (/\ running = i
               /\ sends[i].pc = "processMessage"
               /\ sends[i].line = 59
               /\ messageQueue[i].to \notin DOMAIN agents) =>
                /\ messageQueue[i].status = "pending"
                /\ messageQueue'[i].status = "failed"
                /\ sends'[i] = awaiting
                /\ messageQueue'[i] =
                     ("error" :> <<"Agent ", messageQueue[i].to, " not found">>)
                     @@ [messageQueue[i] EXCEPT !.status = "failed"]
                /\ Len(messageQueue') = Len(messageQueue)
                /\ \A j \in 1..Len(messageQueue) :
                     j # i => messageQueue'[j] = messageQueue[j]
                /\ \A j \in 1..Len(sends) : j # i => sends'[j] = sends[j]
                /\ agents' = agents
                /\ contexts' = contexts
                /\ analysisHistory' = analysisHistory
           /\ (/\ messageQueue[i].to \notin RoleAgents
               /\ sends[i] = awaiting
               /\ sends'[i] # sends[i]) =>
                /\ sends'[i] = [awaiting EXCEPT !.pc = "returned"]
                /\ messageQueue' = messageQueue
                /\ \A j \in 1..Len(sends) : j # i => sends'[j] = sends[j]
                /\ agents' = agents
                /\ contexts' = contexts
                /\ analysisHistory' = analysisHistory
    ]_vars

C11_UnknownAgentMessageFailed ==
  /\ Len(messageQueue) = 2
  /\ messageQueue[1].status = "completed"
  /\ messageQueue[2].to = "ghost-agent"
  /\ messageQueue[2].status = "failed"
  /\ sends[2].pc = "returned"
  /\ ~sends[2].result.success
  /\ "s1" \in DOMAIN contexts

\* C12: whatever fails inside a role handler, sendMessage returns
\* {success: false, messageId, error} with the message marked failed, and
\* returns success: true only when nothing failed: a failure of the database
\* call that stores or reads the learning style is reported, not swallowed.
C12_HandlerFailuresReported ==
  \A i \in 1..Len(sends) :
    sends[i].pc = "returned" =>
      /\ sends[i].result.messageId = messageQueue[i].id
      /\ sends[i].result.success <=> messageQueue[i].status = "completed"
      /\ ~sends[i].result.success <=>
           (messageQueue[i].status = "failed" /\ "error" \in DOMAIN sends[i].result)
      /\ ("logged" \in DOMAIN sends[i] /\ sends[i].logged # << >>) =>
           ~sends[i].result.success

(***************************************************************************)
(* Direct calls of detectLearningStyle, on messages that repeat one word   *)
(* of each style's indicator list.                                         *)
(***************************************************************************)
MaxRepeat == 3

RECURSIVE Repeat(_, _)
Repeat(word, n) == IF n = 0 THEN << >> ELSE word \o Repeat(word, n - 1)

\* "Mapa " visual times, "audio " auditory times, "LIBRO " reading times and
\* "jugar " kinesthetic times
StyleText(visual, auditory, reading, kinesthetic) ==
  Repeat(<<"M","a","p","a"," ">>, visual)
  \o Repeat(<<"a","u","d","i","o"," ">>, auditory)
  \o Repeat(<<"L","I","B","R","O"," ">>, reading)
  \o Repeat(<<"j","u","g","a","r"," ">>, kinesthetic)

\* one call on one message: what the method returns depends on nothing else
DetectLearningStyle(message) ==
  /\ lastCall.op = "none"
  /\ lastCall' = [op |-> "detectLearningStyle", message |-> message,
                  value |-> detectLearningStyle(message)]
  /\ UNCHANGED <<analysisHistory, now, calls, subject, classified>>
  /\ UNCHANGED mcpVars

NextStyle ==
  \/ \E visual \in 0..MaxRepeat, auditory \in 0..MaxRepeat,
        reading \in 0..MaxRepeat, kinesthetic \in 0..MaxRepeat :
       DetectLearningStyle([kind |-> "string",
                            text |-> StyleText(visual, auditory, reading,
                                               kinesthetic)])
  \/ \E message \in {m \in Messages : m.kind = "object"} :
       DetectLearningStyle(message)

SpecStyle == Init /\ [][NextStyle]_vars

\* the four counts of a message's text, in the order visual, auditory,
\* reading, kinesthetic
StyleCounts ==
  LET text == toLowerCase(lastCall.message.text)
  IN  <<countIndicators(text, visualIndicators),
        countIndicators(text, auditoryIndicators),
        countIndicators(text, readingIndicators),
        countIndicators(text, kinestheticIndicators)>>

StyleNames == <<"visual", "auditory", "reading", "kinesthetic">>

\* C13: detectLearningStyle returns no style (null) when the largest of the
\* four counts is below 2, also when one style alone has that largest count,
\* and returns a style when the largest count is 2 or more.
C13_NoStyleBelowTwo ==
  (lastCall.op = "detectLearningStyle" /\ lastCall.message.kind = "string") =>
    (lastCall.value = << >> <=> \A n \in 1..4 : StyleCounts[n] < 2)

C13_UniqueMaximumOfOne ==
  /\ lastCall.op = "detectLearningStyle"
  /\ lastCall.message.kind = "string"
  /\ StyleCounts = <<0, 1, 0, 0>>
  /\ lastCall.value = << >>

\* C14: the style detectLearningStyle returns has the largest of the four
\* counts, and among styles that share the largest count it is the last in
\* the order visual, auditory, reading, kinesthetic; 3 for visual and 3 for
\* auditory, with less for the other two, gives auditory.
C14_LastOfTheMaximaWins ==
  (/\ lastCall.op = "detectLearningStyle"
   /\ lastCall.message.kind = "string"
   /\ lastCall.value # << >>) =>
    LET holds(counts) ==
          /\ \E n \in 1..4 :
               /\ StyleNames[n] = lastCall.value[1]
               /\ \A k \in 1..4 : counts[k] <= counts[n]
               /\ \A k \in (n + 1)..4 : counts[k] < counts[n]
          /\ (/\ counts[1] = 3 /\ counts[2] = 3
              /\ counts[3] < 3 /\ counts[4] < 3) =>
               lastCall.value = <<"auditory">>
    IN  holds(StyleCounts)

C14_VisualAndAuditoryTied ==
  /\ lastCall.op = "detectLearningStyle"
  /\ lastCall.message.kind = "string"
  /\ StyleCounts = <<3, 3, 1, 0>>
  /\ lastCall.value = <<"auditory">>


\* ---------------------------------------------------------------------------
\* Adaptations for a learning style.  An activity is a sequence of at most one
\* record whose title, when it has one, is a string; a learning-style record
\* is a sequence of at most one record that may have the fields
\* estilo_detectado (a string) and confianza.  confianza n stands for the
\* literal n/10, and n/10 < 0.7 holds of the doubles exactly when n < 7.
\* Every activity of a bundle is a template literal, the sequence of its
\* pieces.  A property an object inherits from Object.prototype, found where
\* a bundle or a list of styles is looked up by name, is [inherited |-> name].
\* ---------------------------------------------------------------------------
\* activity.title || "Actividad de pensamiento crítico"; reading the title of
\* a missing activity throws
baseActivityOf(activity) ==
  IF activity = << >>
    THEN Thrown("Cannot read properties of undefined (reading 'title')")
  ELSE IF "title" \in DOMAIN activity[1] /\ truthy(activity[1].title)
    THEN Returned(activity[1].title)
  ELSE Returned("Actividad de pensamiento crítico")

\* the bundle of style, or what line 782 throws
generateStyleSpecificAdaptations(style, activity, confidence) ==
  LET baseActivity == baseActivityOf(activity).value
      adaptationsByStyle ==
        [visual |->
           [actividades |->
              << <<"Crear un mapa conceptual sobre ", baseActivity>>,
                 <<"Diseñar infografías que representen los argumentos principales">>,
                 <<"Usar diagramas de flujo para organizar ideas">>,
                 <<"Crear una presentación visual con imágenes y gráficos">> >>,
            recursos |->
              << "Herramientas de diseño gráfico",
                 "Plantillas de mapas conceptuales",
                 "Biblioteca de imágenes educativas",
                 "Software de presentaciones" >>],
         auditory |->
           [actividades |->
              << <<"Participar en un debate oral sobre ", baseActivity>>,
                 <<"Grabar un podcast explicando los argumentos">>,
                 <<"Realizar una exposición oral con argumentos">>,
                 <<"Participar en discusiones grupales estructuradas">> >>,
            recursos |->
              << "Grabadora de audio",
                 "Plantillas de debate",
                 "Biblioteca de podcasts educativos",
                 "Guías de expresión oral" >>],
         reading |->
           [actividades |->
              << <<"Redactar un ensayo estructurado sobre ", baseActivity>>,
                 <<"Crear un resumen escrito de los argumentos">>,
                 <<"Elaborar fichas de lectura con citas">>,
                 <<"Escribir un análisis crítico por escrito">> >>,
            recursos |->
              << "Plantillas de ensayo",
                 "Guías de escritura académica",
                 "Biblioteca de textos de referencia",
                 "Herramientas de citación" >>],
         kinesthetic |->
           [actividades |->
              << <<"Crear un proyecto práctico sobre ", baseActivity>>,
                 <<"Realizar experimentos que demuestren los argumentos">>,
                 <<"Construir modelos físicos de los conceptos">>,
                 <<"Participar en actividades de role-play">> >>,
            recursos |->
              << "Materiales de construcción",
                 "Kits de experimentos",
                 "Herramientas de modelado",
                 "Espacios de trabajo colaborativo" >>]]
  IN  IF baseActivityOf(activity).threw
        THEN baseActivityOf(activity)
      ELSE IF style \in DOMAIN adaptationsByStyle
        THEN adaptationsByStyle[style]
      ELSE IF style \in ObjectPrototype
        THEN [inherited |-> style]
      ELSE adaptationsByStyle.reading

getComplementaryStyles(primaryStyle) ==
  CASE primaryStyle = "visual" -> <<"reading", "kinesthetic">>
    [] primaryStyle = "auditory" -> <<"visual", "kinesthetic">>
    [] primaryStyle \in {"reading", "kinesthetic"} -> <<"visual", "auditory">>
    [] primaryStyle \in ObjectPrototype -> [inherited |-> primaryStyle]
    [] OTHER -> <<"visual", "auditory">>

\* {} as an activity
NoTitle == <<[objectives |-> << >>]>>

generateDefaultAdaptations ==
  [visual |-> generateStyleSpecificAdaptations("visual", NoTitle, 5),
   auditory |-> generateStyleSpecificAdaptations("auditory", NoTitle, 5),
   reading |-> generateStyleSpecificAdaptations("reading", NoTitle, 5),
   kinesthetic |-> generateStyleSpecificAdaptations("kinesthetic", NoTitle, 5)]

\* !learningStyles || !learningStyles.estilo_detectado
NoDetectedStyle(learningStyles) ==
  \/ learningStyles = << >>
  \/ "estilo_detectado" \notin DOMAIN learningStyles[1]
  \/ learningStyles[1].estilo_detectado = ""

\* a confidence that is taken as 0.7 when the record gives none
confidenceOfAtThreshold(learningStyles) ==
  IF "confianza" \in DOMAIN learningStyles[1] /\ learningStyles[1].confianza # 0
    THEN learningStyles[1].confianza ELSE 7

\* learningStyles.confianza || 0.5
confidenceOf(learningStyles) ==
  IF "confianza" \in DOMAIN learningStyles[1] /\ learningStyles[1].confianza # 0
    THEN learningStyles[1].confianza ELSE 5

\* a generatePersonalizedAdaptations that looks only for a missing record: a
\* record without a style is read as the style undefined
generatePersonalizedAdaptationsOfAnyRecord(activity, learningStyles) ==
  IF learningStyles = << >>
    THEN generateDefaultAdaptations
  ELSE
    LET styled(detectedStyle, confidence) ==
          LET detected == generateStyleSpecificAdaptations(detectedStyle, activity,
                                                           confidence)
              complementaryStyles == getComplementaryStyles(detectedStyle)
          IN  IF "threw" \in DOMAIN detected
                THEN generateDefaultAdaptations
              ELSE IF confidence >= 7
                THEN (detectedStyle :> detected)
              ELSE IF detectedStyle \in ObjectPrototype
                THEN generateDefaultAdaptations
              ELSE [style \in {detectedStyle}
                               \cup { complementaryStyles[n] : n \in 1..2 } |->
                      IF \E n \in 1..2 : complementaryStyles[n] = style
                        THEN generateStyleSpecificAdaptations(style, activity, 3)
                        ELSE detected]
    IN  styled(IF "estilo_detectado" \in DOMAIN learningStyles[1]
                 THEN learningStyles[1].estilo_detectado ELSE "undefined",
               confidenceOf(learningStyles))

\* the adaptations by style name.  What is thrown inside the try, by
\* reading the title of a missing activity or by calling forEach on what
\* getComplementaryStyles found in Object.prototype, is caught, and the
\* catch returns the default adaptations.  The computed key [detectedStyle]
\* defines an own property of the result, also for the name __proto__
generatePersonalizedAdaptations(activity, learningStyles) ==
  IF NoDetectedStyle(learningStyles)
    THEN generateDefaultAdaptations
  ELSE
    LET styled(detectedStyle, confidence) ==
          LET detected == generateStyleSpecificAdaptations(detectedStyle, activity,
                                                           confidence)
              complementaryStyles == getComplementaryStyles(detectedStyle)
          IN  IF "threw" \in DOMAIN detected
                THEN generateDefaultAdaptations
              ELSE IF confidence >= 7
                THEN (detectedStyle :> detected)
              ELSE IF detectedStyle \in ObjectPrototype
                THEN generateDefaultAdaptations
              ELSE [style \in {detectedStyle}
                               \cup { complementaryStyles[n] : n \in 1..2 } |->
                      IF \E n \in 1..2 : complementaryStyles[n] = style
                        THEN generateStyleSpecificAdaptations(style, activity, 3)
                        ELSE detected]
    IN  styled(learningStyles[1].estilo_detectado, confidenceOf(learningStyles))

Activities ==
  { << >>, NoTitle, <<[title |-> ""]>>, <<[title |-> "Debate sobre el agua"]>> }

LearningStyleRecords ==
  { << >>, <<[descripcion |-> "sin estilo"]>>, <<[estilo_detectado |-> ""]>> }
  \cup { <<[estilo_detectado |-> style]>> :
           style \in {"visual", "auditory", "reading", "kinesthetic", "mixto"} }
  \cup { <<[estilo_detectado |-> style, confianza |-> confianza]>> :
           style \in {"visual", "auditory", "reading", "kinesthetic", "mixto"},
           confianza \in {0, 3, 7, 9} }
  \cup { <<[estilo_detectado |-> "constructor", confianza |-> confianza]>> :
           confianza \in {3, 9} }

\* one call with one activity and one record: what the method returns depends
\* on nothing else
GeneratePersonalizedAdaptations(activity, learningStyles) ==
  /\ lastCall.op = "none"
  /\ lastCall' = [op |-> "generatePersonalizedAdaptations",
                  activity |-> activity, learningStyles |-> learningStyles,
                  value |-> generatePersonalizedAdaptations(activity,
                                                            learningStyles)]
  /\ UNCHANGED <<analysisHistory, now, calls, subject, classified>>
  /\ UNCHANGED mcpVars

NextAdaptations ==
  \E activity \in Activities, learningStyles \in LearningStyleRecords :
    GeneratePersonalizedAdaptations(activity, learningStyles)

SpecAdaptations == Init /\ [][NextAdaptations]_vars

\* C15: generatePersonalizedAdaptations called with no learning-style record,
\* or with a record that has no detected style, returns exactly the four
\* bundles visual, auditory, reading and kinesthetic; each is the bundle of
\* its style for an activity without title, has the activities and the
\* resources and nothing that ranks it, whatever the activity passed.
C15_DefaultAdaptationsWithoutStyle ==
  (/\ lastCall.op = "generatePersonalizedAdaptations"
   /\ NoDetectedStyle(lastCall.learningStyles)) =>
    /\ DOMAIN lastCall.value = {"visual", "auditory", "reading", "kinesthetic"}
    /\ \A style \in DOMAIN lastCall.value :
         /\ DOMAIN lastCall.value[style] = {"actividades", "recursos"}
         /\ Len(lastCall.value[style].actividades) = 4
         /\ Len(lastCall.value[style].recursos) = 4
         /\ lastCall.value[style].actividades[1][2]
              = "Actividad de pensamiento crítico"
         /\ lastCall.value[style]
              = generateStyleSpecificAdaptations(style, NoTitle, 5)
    /\ lastCall.value.visual.actividades[1][1] = "Crear un mapa conceptual sobre "
    /\ lastCall.value.auditory.recursos[1] = "Grabadora de audio"
    /\ lastCall.value.reading.recursos[1] = "Plantillas de ensayo"
    /\ lastCall.value.kinesthetic.recursos[1] = "Materiales de construcción"

C15_RecordWithoutStyleAndTitledActivity ==
  /\ lastCall.op = "generatePersonalizedAdaptations"
  /\ lastCall.learningStyles = <<[descripcion |-> "sin estilo"]>>
  /\ lastCall.activity = <<[title |-> "Debate sobre el agua"]>>
  /\ DOMAIN lastCall.value = {"visual", "auditory", "reading", "kinesthetic"}


\* ---------------------------------------------------------------------------
\* The scores of a text before and after an indicator phrase of the scored
\* category is appended to it.
\* ---------------------------------------------------------------------------
MaxOccurrences == 5

\* the phrases counted for a score: for reasoningQuality and originalityScore
\* the ones of the count that is added, not of the count that is subtracted
OwnIndicators ==
  [coherence |-> coherenceIndicators,
   organization |-> structureIndicators,
   depth |-> depthIndicators,
   breadth |-> breadthIndicators,
   argumentFlow |-> connectionIndicators,
   reasoningQuality |-> connectionIndicators,
   evidenceQuality |-> evidenceTypes[1][2] \o evidenceTypes[2][2]
                        \o evidenceTypes[3][2] \o evidenceTypes[4][2],
   sourceDependency |-> sourceIndicators,
   overallLevel |-> questionIndicators \o analysisIndicators
                     \o evaluationIndicators \o synthesisIndicators
                     \o metacognitionIndicators,
   originalityScore |-> personalIndicators \o creativeIndicators]

\* the call that computes the score of a category, as the sub-analyses make it
scoreOf(category, text) ==
  CASE category = "coherence" -> Returned(assessCoherence(text))
    [] category = "organization" -> Returned(assessOrganization(text))
    [] category = "depth" -> Returned(assessDepth(text))
    [] category = "breadth" -> Returned(assessBreadth(text))
    [] category = "argumentFlow" -> Returned(assessArgumentFlow(text))
    [] category = "reasoningQuality" -> Returned(assessReasoningQuality(text))
    [] category = "evidenceQuality" -> Returned(assessEvidenceQuality(text))
    [] category = "sourceDependency" -> assessSourceDependency(text)
    [] category = "overallLevel" -> Returned(calculateCriticalThinkingLevel(text))
    [] category = "originalityScore" -> calculateOriginalityScore(text)

\* "Todos dicen siempr": a fallacy word, and the beginning of another one that
\* an appended "en consecuencia" or "esto demuestra" completes
OpenEndedText ==
  <<"T","o","d","o","s"," ","d","i","c","e","n"," ","s","i","e","m","p","r">>

\* text has the phrase appended occurrences times already, each after the
\* separator, and gets it once more
AppendIndicator(category, text, separator, phrase, occurrences) ==
  /\ lastCall.op = "none"
  /\ lastCall' =
       [op |-> "appendIndicator", category |-> category,
        phrase |-> phrase, occurrences |-> occurrences,
        before |-> scoreOf(category,
                           text \o Repeat(separator \o phrase, occurrences)),
        after |-> scoreOf(category,
                          text \o Repeat(separator \o phrase, occurrences + 1))]
  /\ UNCHANGED <<analysisHistory, now, calls, subject, classified>>
  /\ UNCHANGED mcpVars

NextScores ==
  \E category \in DOMAIN OwnIndicators, text \in {EmptyText, OpenEndedText},
     separator \in {<< >>, <<" ">>}, occurrences \in 0..MaxOccurrences :
    \E n \in 1..Len(OwnIndicators[category]) :
      AppendIndicator(category, text, separator, OwnIndicators[category][n],
                      occurrences)

SpecScores == Init /\ [][NextScores]_vars

\* C16: for each of the ten scored categories, the score of a text and the
\* score of the text with one more occurrence of an indicator phrase of the
\* category are both computed, the second is not lower than the first, and a
\* first score of 1 gives a second score of 1.
C16_ScoreNeverLoweredByOwnIndicator ==
  lastCall.op = "appendIndicator" =>
    /\ ~lastCall.before.threw
    /\ ~lastCall.after.threw
    /\ ~FLt(lastCall.after.value, lastCall.before.value)
    /\ (~FLt(lastCall.before.value, One) => ~FLt(lastCall.after.value, One))


\* ---------------------------------------------------------------------------
\* analyzeArgument on texts with a given number of source indicators.
\* ---------------------------------------------------------------------------
\* "Creo que es grave. "
ThesisText ==
  <<"C","r","e","o"," ","q","u","e"," ","e","s"," ","g","r","a","v","e","."," ">>

\* a text without or with a thesis marker, then the same source indicator a
\* number of times
SourceTexts ==
  { text \o Repeat(sourceIndicators[n] \o <<" ">>, occurrences) :
      text \in {EmptyText, ThesisText}, n \in {1, 4, 5},
      occurrences \in 0..MaxOccurrences }

NextSources ==
  \/ \E studentText \in SourceTexts :
       AnalyzeArgument(1, studentText, [sessionId |-> "s1"])
  \/ Resume(1)

SpecSources == Init /\ [][NextSources]_vars

\* C17: once a call of analyzeArgument has ended, the weaknesses identified
\* for its text include source_dependency exactly when min(count/5, 1) of the
\* text's source-indicator count exceeds 0.7, which is exactly when the count
\* is 4 or more; a text with a thesis marker and one source indicator has
\* hasThesis true, an evidence count of at least 1 and no source_dependency
\* weakness.
C17_SourceDependencyFromFourIndicators ==
  \A c \in DOMAIN calls :
    calls[c].pc \in {"resolved", "rejected"} =>
      LET holds(count, weaknesses) ==
            /\ FGt(normalized(count, 5), Dec(7, 10)) <=> count >= 4
            /\ (\E n \in 1..Len(weaknesses) :
                  weaknesses[n].type = "source_dependency") <=> count >= 4
            /\ (detectThesis(calls[c].studentText) /\ count = 1) =>
                 /\ calls[c].analysis.content.hasThesis
                 /\ extractEvidenceIndicators(calls[c].studentText).count >= 1
      IN  holds(lowerCount(calls[c].studentText, sourceIndicators),
                IF calls[c].pc = "resolved"
                  THEN identifyWeaknesses(calls[c].analysis) ELSE << >>)


\* ---------------------------------------------------------------------------
\* The rules on Analyses whose scores lie on and around the thresholds.
\* ---------------------------------------------------------------------------
\* scores are the literals tenths/10
RuleSubjects ==
  { [structure |-> [coherence |-> Dec(7, 10)],
     content |-> [thesisClarity |-> Dec(thesis, 10)],
     evidence |-> [evidenceCount |-> evidence],
     originality |-> [sourceDependency |-> Dec(source, 10),
                      originalityScore |-> Dec(original, 10)],
     reasoning |-> [reasoningQuality |-> Dec(reasoning, 10)],
     criticalThinking |-> [overallLevel |-> Dec(level, 10)]] :
    thesis \in {5, 6, 8, 9}, evidence \in {1, 2, 3}, source \in {7, 8},
    original \in {6, 7}, reasoning \in {5, 6, 8, 9}, level \in {4, 5} }

InitRules == StartUp /\ subject \in RuleSubjects

SpecRules == InitRules /\ [][NextClassifier]_vars

\* the number of tenths a score is the literal of
Tenths(score) == CHOOSE tenths \in 0..10 : Dec(tenths, 10) = score

\* C18: on every Analysis identifyWeaknesses reports thesis_weak (high) iff
\* thesisClarity < 0.6, evidence_lacking (medium) iff evidenceCount < 2,
\* source_dependency (high) iff sourceDependency > 0.7, reasoning_weak
\* (medium) iff reasoningQuality < 0.6 and critical_thinking_low (high) iff
\* overallLevel < 0.5, each at most once and whatever the other rules give;
\* identifyStrengths reports Tesis iff thesisClarity > 0.8, Evidencia iff
\* evidenceCount >= 3, Originalidad iff originalityScore > 0.6, Razonamiento
\* iff reasoningQuality > 0.8 and never critical thinking; a thesis or
\* reasoning score from 0.6 to 0.8 is in neither list.
C18_RulesAppliedIndependently ==
  {"identifyWeaknesses", "identifyStrengths"} \subseteq DOMAIN classified =>
    LET weaknesses == classified["identifyWeaknesses"]
        strengths == classified["identifyStrengths"]
        weak(type, priority) ==
          \E n \in 1..Len(weaknesses) :
            weaknesses[n].type = type /\ weaknesses[n].priority = priority
        strong(area) == \E n \in 1..Len(strengths) : strengths[n].area = area
        thesis == Tenths(subject.content.thesisClarity)
        reasoning == Tenths(subject.reasoning.reasoningQuality)
        expected ==
          [thesis_weak |-> thesis < 6,
           evidence_lacking |-> subject.evidence.evidenceCount < 2,
           source_dependency |-> Tenths(subject.originality.sourceDependency) > 7,
           reasoning_weak |-> reasoning < 6,
           critical_thinking_low |->
             Tenths(subject.criticalThinking.overallLevel) < 5]
    IN  /\ weak("thesis_weak", "high") <=> expected.thesis_weak
        /\ weak("evidence_lacking", "medium") <=> expected.evidence_lacking
        /\ weak("source_dependency", "high") <=> expected.source_dependency
        /\ weak("reasoning_weak", "medium") <=> expected.reasoning_weak
        /\ weak("critical_thinking_low", "high") <=> expected.critical_thinking_low
        /\ Len(weaknesses) = Cardinality({type \in DOMAIN expected : expected[type]})
        /\ strong("Tesis") <=> thesis > 8
        /\ strong("Evidencia") <=> subject.evidence.evidenceCount >= 3
        /\ strong("Originalidad")
             <=> Tenths(subject.originality.originalityScore) > 6
        /\ strong("Razonamiento") <=> reasoning > 8
        /\ ~strong("Pensamiento Crítico")
        /\ Len(strengths) = Cardinality({area \in {"Tesis", "Evidencia",
                                "Originalidad", "Razonamiento"} : strong(area)})
        /\ thesis \in 6..8 => ~weak("thesis_weak", "high") /\ ~strong("Tesis")
        /\ reasoning \in 6..8 =>
             ~weak("reasoning_weak", "medium") /\ ~strong("Razonamiento")

C18_ThesisAndReasoningOnTheThresholds ==
  /\ {"identifyWeaknesses", "identifyStrengths"} \subseteq DOMAIN classified
  /\ Tenths(subject.content.thesisClarity) = 6
  /\ Tenths(subject.reasoning.reasoningQuality) = 8
  /\ subject.evidence.evidenceCount = 1
  /\ Tenths(subject.originality.sourceDependency) = 8
  /\ Tenths(subject.criticalThinking.overallLevel) = 4
  /\ Len(classified["identifyWeaknesses"]) = 3
  /\ Len(classified["identifyStrengths"]) = 0


\* ---------------------------------------------------------------------------
\* Direct calls of generatePersonalizedFeedback and generateMicroChallenges
\* on one Analysis.
\* ---------------------------------------------------------------------------
GeneratePersonalizedFeedback ==
  /\ "generatePersonalizedFeedback" \notin DOMAIN classified
  /\ classified' =
       [op \in DOMAIN classified \cup {"generatePersonalizedFeedback"} |->
          IF op = "generatePersonalizedFeedback"
            THEN generatePersonalizedFeedback(subject, [sessionId |-> "s1"])
            ELSE classified[op]]
  /\ UNCHANGED <<analysisHistory, now, calls, lastCall, subject>>
  /\ UNCHANGED mcpVars

GenerateMicroChallenges(draws) ==
  /\ "generateMicroChallenges" \notin DOMAIN classified
  /\ classified' =
       [op \in DOMAIN classified \cup {"generateMicroChallenges"} |->
          IF op = "generateMicroChallenges"
            THEN generateMicroChallenges(subject, [sessionId |-> "s1"], now, draws)
            ELSE classified[op]]
  /\ UNCHANGED <<analysisHistory, now, calls, lastCall, subject>>
  /\ UNCHANGED mcpVars

NextFeedback ==
  \/ GeneratePersonalizedFeedback
  \/ \E draws \in [1..5 -> RandomSuffixes] : GenerateMicroChallenges(draws)

SpecFeedback == InitClassifier /\ [][NextFeedback]_vars

WeaknessTypes ==
  {"thesis_weak", "evidence_lacking", "source_dependency", "reasoning_weak",
   "critical_thinking_low"}

\* C19: the challenge templates and the feedback templates each have an
\* entry for all five weakness categories, and generateMicroChallenges
\* returns one micro-challenge for every weakness identifyWeaknesses reports,
\* of the weakness's type and in the order of the weaknesses.
C19_OneChallengePerWeakness ==
  "generateMicroChallenges" \in DOMAIN classified =>
    LET holds(challenges, weaknesses) ==
          /\ DOMAIN feedbackTemplates = WeaknessTypes
          /\ DOMAIN challengeTemplates = WeaknessTypes
          /\ Len(challenges) = Len(weaknesses)
          /\ \A n \in 1..Len(weaknesses) :
               challenges[n].type = weaknesses[n].type
    IN  holds(classified["generateMicroChallenges"],
              identifyWeaknesses(subject))

\* C20: generatePersonalizedFeedback returns one item for every weakness
\* identifyWeaknesses reports, in their order, with the type, area and score
\* of the weakness and the message, suggestion and priority of the template
\* of its type, then one item for every strength identifyStrengths reports,
\* of type strength and priority low; its length is the number of weaknesses
\* plus the number of strengths.
C20_OneItemPerWeaknessThenPerStrength ==
  "generatePersonalizedFeedback" \in DOMAIN classified =>
    LET holds(feedback, weaknesses, strengths) ==
          /\ Len(feedback) = Len(weaknesses) + Len(strengths)
          /\ \A n \in 1..Len(weaknesses) :
               /\ feedback[n].type = weaknesses[n].type
               /\ feedback[n].area = weaknesses[n].area
               /\ feedback[n].score = weaknesses[n].score
               /\ feedback[n].message
                    = <<feedbackTemplates[weaknesses[n].type].message>>
               /\ feedback[n].suggestion
                    = feedbackTemplates[weaknesses[n].type].suggestion
               /\ feedback[n].priority
                    = feedbackTemplates[weaknesses[n].type].priority
          /\ \A n \in 1..Len(strengths) :
               /\ feedback[Len(weaknesses) + n].type = "strength"
               /\ feedback[Len(weaknesses) + n].priority = "low"
               /\ feedback[Len(weaknesses) + n].area = strengths[n].area
               /\ feedback[Len(weaknesses) + n].message[2] = strengths[n].area
               /\ feedback[Len(weaknesses) + n].message[4] = strengths[n].message
    IN  holds(classified["generatePersonalizedFeedback"],
              identifyWeaknesses(subject), identifyStrengths(subject))

C20_FiveWeaknessesAndOneStrength ==
  /\ "generatePersonalizedFeedback" \in DOMAIN classified
  /\ Len(identifyWeaknesses(subject)) = 5
  /\ Len(identifyStrengths(subject)) = 1
  /\ Len(classified["generatePersonalizedFeedback"]) = 6
  /\ classified["generatePersonalizedFeedback"][3].type = "source_dependency"
  /\ classified["generatePersonalizedFeedback"][6].type = "strength"


\* ---------------------------------------------------------------------------
\* Direct calls of calculateOverallScores on the six sub-records of an
\* Analysis.
\* ---------------------------------------------------------------------------
\* the scores are the values the helpers give for 0 or 1 indicators
OverallSubjects ==
  { [structure |-> [coherence |-> Dec(coherence, 3),
                    organization |-> Dec(organization, 2)],
     content |-> [thesisClarity |-> Dec(thesis, 10), depth |-> Dec(depth, 2),
                  breadth |-> Zero],
     reasoning |-> [reasoningQuality |-> Dec(reasoning, 3)],
     evidence |-> [evidenceQuality |-> Dec(evidence, 5),
                   evidenceRelevance |-> Dec(7, 10)],
     criticalThinking |-> [overallLevel |-> Dec(level, 5)],
     originality |-> [originalityScore |-> Zero]] :
    coherence \in {0, 1}, organization \in {0, 1}, thesis \in {3, 8},
    depth \in {0, 1}, reasoning \in {0, 1}, evidence \in {0, 1},
    level \in {0, 1} }

InitOverall == StartUp /\ subject \in OverallSubjects

CalculateOverallScores ==
  /\ "calculateOverallScores" \notin DOMAIN classified
  /\ classified' =
       [op \in DOMAIN classified \cup {"calculateOverallScores"} |->
          IF op = "calculateOverallScores" THEN calculateOverallScores(subject)
          ELSE classified[op]]
  /\ UNCHANGED <<analysisHistory, now, calls, lastCall, subject>>
  /\ UNCHANGED mcpVars

SpecOverall == InitOverall /\ [][CalculateOverallScores]_vars

\* C21: the total of the overall record calculateOverallScores returns for an
\* Analysis is the mean of its six values structure, content, reasoning,
\* evidence, criticalThinking and originality.
C21_TotalIsMeanOfSixDimensions ==
  "calculateOverallScores" \in DOMAIN classified =>
    LET mean(overall) ==
          FDiv(FAdd(FAdd(FAdd(FAdd(FAdd(overall.structure, overall.content),
                                   overall.reasoning),
                              overall.evidence),
                         overall.criticalThinking),
                    overall.originality), 6)
        holds(overall) == overall.total = mean(overall)
    IN  holds(classified["calculateOverallScores"])


\* the first words of the first activity of each style's bundle
FirstActivity ==
  [visual |-> "Crear un mapa conceptual sobre ",
   auditory |-> "Participar en un debate oral sobre ",
   reading |-> "Redactar un ensayo estructurado sobre ",
   kinesthetic |-> "Crear un proyecto práctico sobre "]

\* C22: for an activity object and a record whose detected style m is one of
\* visual, auditory, reading and kinesthetic, generatePersonalizedAdaptations
\* returns the bundle of m alone when the confidence is 0.7 or more, and the
\* bundles of m and of the two complementary styles of m (visual: reading,
\* kinesthetic; auditory: visual, kinesthetic; reading: visual, auditory;
\* kinesthetic: visual, auditory), never m twice, when the confidence is
\* below 0.7 or the record gives none.
C22_ComplementaryStylesBelowThreshold ==
  (/\ lastCall.op = "generatePersonalizedAdaptations"
   /\ lastCall.activity # << >>
   /\ ~NoDetectedStyle(lastCall.learningStyles)
   /\ lastCall.learningStyles[1].estilo_detectado \in DOMAIN FirstActivity) =>
    LET complementary ==
          [visual |-> {"reading", "kinesthetic"},
           auditory |-> {"visual", "kinesthetic"},
           reading |-> {"visual", "auditory"},
           kinesthetic |-> {"visual", "auditory"}]
        holds(m, record, value) ==
          /\ m \notin complementary[m]
          /\ ("confianza" \in DOMAIN record /\ record.confianza >= 7) =>
               DOMAIN value = {m}
          /\ ("confianza" \notin DOMAIN record \/ record.confianza < 7) =>
               /\ DOMAIN value = {m} \cup complementary[m]
               /\ Cardinality(DOMAIN value) = 3
          /\ \A style \in DOMAIN value :
               value[style].actividades[1][1] = FirstActivity[style]
    IN  holds(lastCall.learningStyles[1].estilo_detectado,
              lastCall.learningStyles[1], lastCall.value)

C22_ReadingWithoutConfidence ==
  /\ lastCall.op = "generatePersonalizedAdaptations"
  /\ lastCall.activity = <<[title |-> "Debate sobre el agua"]>>
  /\ lastCall.learningStyles = <<[estilo_detectado |-> "reading"]>>
  /\ DOMAIN lastCall.value = {"reading", "visual", "auditory"}


\* C23: every bundle generatePersonalizedAdaptations returns for a detected
\* style, built by generateStyleSpecificAdaptations from the activity, has 4
\* activities and 4 resources, and each of the 4 activity strings has the
\* activity's title in it.
C23_TitleInEveryActivity ==
  (/\ lastCall.op = "generatePersonalizedAdaptations"
   /\ lastCall.activity # << >>
   /\ ~NoDetectedStyle(lastCall.learningStyles)) =>
    \A style \in DOMAIN lastCall.value :
      /\ {"actividades", "recursos"} \subseteq DOMAIN lastCall.value[style]
      /\ Len(lastCall.value[style].actividades) = 4
      /\ Len(lastCall.value[style].recursos) = 4
      /\ \A n \in 1..4 :
           \E k \in 1..Len(lastCall.value[style].actividades[n]) :
             lastCall.value[style].actividades[n][k]
               = baseActivityOf(lastCall.activity).value


\* C24: when generatePersonalizedAdaptations returns the bundles of a
\* detected style and of its complementary styles, the bundles carry a mark
\* besides their activities and resources, and the mark of every
\* complementary bundle is lower than the mark of the detected style's bundle.
C24_ComplementaryBundlesMarkedLower ==
  (/\ lastCall.op = "generatePersonalizedAdaptations"
   /\ lastCall.activity # << >>
   /\ ~NoDetectedStyle(lastCall.learningStyles)
   /\ Cardinality(DOMAIN lastCall.value) > 1) =>
    LET holds(m, value) ==
          /\ m \in DOMAIN value
          /\ \E mark \in DOMAIN value[m] \ {"actividades", "recursos"} :
               \A style \in DOMAIN value \ {m} :
                 /\ mark \in DOMAIN value[style]
                 /\ value[style][mark] < value[m][mark]
    IN  holds(lastCall.learningStyles[1].estilo_detectado, lastCall.value)


\* C25: no analyzeArgument call ends without its result, and the step in
\* which a call returns is the step that appends the call's analysis to the
\* history of its session and computes the returned progress from the history
\* with that entry as its last one.
C25_AppendThenProgressInOneStep ==
  [][\A c \in DOMAIN calls :
       /\ calls'[c].pc # "rejected"
       /\ (calls[c].pc # "resolved" /\ calls'[c].pc = "resolved") =>
            LET holds(sessionId, before, after) ==
                  /\ Len(after) = Len(before) + 1
                  /\ SubSeq(after, 1, Len(before)) = before
                  /\ after[Len(after)].analysis = calls[c].analysis
                  /\ calls'[c].awaited.value.progress
                       = calculateProgress(analysisHistory', sessionId)
            IN  holds(calls[c].context.sessionId,
                      historyOf(analysisHistory, calls[c].context.sessionId),
                      historyOf(analysisHistory', calls[c].context.sessionId))]_vars


\* C26: the context in the payload of a message is the context stored for its
\* session when processMessage starts, which is when sendMessage was called;
\* it stays the same while the handler is suspended, whatever setContext
\* stores for the session meanwhile, and it is the context of the response
\* the handler returns.
C26_HandlerKeepsContextOfTheSend ==
  [][\A i \in 1..Len(sends) :
       /\ (/\ sends[i].pc = "processMessage"
           /\ sends[i].line = 59
           /\ "payload" \in DOMAIN sends'[i]) =>
            sends'[i].payload.context
              = getContext(contexts, messageQueue[i].sessionId)
       /\ ("payload" \in DOMAIN sends[i] /\ "payload" \in DOMAIN sends'[i]) =>
            sends'[i].payload = sends[i].payload
       /\ (sends'[i].pc = "executeAgentAction" /\ ~sends'[i].awaited.threw) =>
            sends'[i].awaited.value.context = sends'[i].payload.context
       /\ (/\ sends[i].pc = "processMessage"
           /\ sends[i].line = 84
           /\ sends'[i].pc = "sendMessage"
           /\ sends'[i].result.success) =>
            /\ sends'[i].result.response.context = sends[i].payload.context
            /\ messageQueue'[i].response.context = sends[i].payload.context]_vars

C26_ContextReplacedWhileSuspended ==
  \E i \in 1..Len(sends) :
    /\ sends[i].pc = "executeAgentAction"
    /\ sends[i].requests # << >>
    /\ ~sends[i].awaited.threw
    /\ sends[i].awaited.value.context[1].version = 1
    /\ "topic" \in DOMAIN contexts["s1"]
    /\ contexts["s1"].version = 2


\* C27: when the session of a message has no context, the teacher-agent
\* handler fails, and the student-agent handler fails exactly when a learning
\* style is detected in the message and returns its response otherwise; a
\* failed handler gives a failed message and success false, a response a
\* completed message and success true.
C27_HandlersWithoutContext ==
  \A i \in 1..Len(sends) :
    /\ (sends[i].pc = "executeAgentAction" /\ sends[i].payload.context = << >>) =>
         /\ messageQueue[i].to = "teacher-agent" => sends[i].awaited.threw
         /\ messageQueue[i].to = "student-agent" =>
              (sends[i].awaited.threw
                 <=> detectLearningStyle(sends[i].payload.message) # << >>)
    /\ sends[i].pc = "returned" =>
         \/ messageQueue[i].status = "failed" /\ ~sends[i].result.success
         \/ messageQueue[i].status = "completed" /\ sends[i].result.success


\* ---------------------------------------------------------------------------
\* The router when what is scheduled runs: the synchronous part of
\* processMessage and its continuation are run by the event loop, and every
\* database call a handler awaits settles.
\* ---------------------------------------------------------------------------
\* an activity request with a title of its own
TitledMessage == [kind |-> "object", title |-> "Mi actividad"]

NextDelivery ==
  \/ SetContext("s1", [studentId |-> "st1"])
  \/ \E toAgentId \in {"student-agent", "teacher-agent", "custom-agent"},
        message \in {[kind |-> "string", text |-> StyledText], TitledMessage} :
       SendMessage("system", toAgentId, message, "s1", "k3x9a")
  \/ \E i \in 1..Len(sends) : ProcessMessage(i)
  \/ \E i \in 1..Len(sends) : HandlerRuns(i)
  \/ \E i \in 1..Len(sends) : RequestIssued(i)
  \/ \E i \in 1..Len(sends), outcome \in AnyOutcome :
       ExternalCallSettles(i, outcome)
  \/ \E i \in 1..Len(sends) : StoreLearningStyleResumed(i)
  \/ \E i \in 1..Len(sends) : ExecuteAgentActionResumed(i)
  \/ \E i \in 1..Len(sends) : ProcessMessageResumed(i)
  \/ \E i \in 1..Len(sends) : SendMessageReturns(i)

\* the event loop runs what is queued, and every database call settles
SpecDelivery ==
  /\ Init /\ [][NextDelivery]_vars
  /\ WF_vars(\E i \in 1..Len(sends) : ProcessMessage(i))
  /\ WF_vars(\E i \in 1..Len(sends) : HandlerRuns(i))
  /\ WF_vars(\E i \in 1..Len(sends) : RequestIssued(i))
  /\ WF_vars(\E i \in 1..Len(sends), outcome \in AnyOutcome :
               ExternalCallSettles(i, outcome))
  /\ WF_vars(\E i \in 1..Len(sends) : StoreLearningStyleResumed(i))
  /\ WF_vars(\E i \in 1..Len(sends) : ExecuteAgentActionResumed(i))
  /\ WF_vars(\E i \in 1..Len(sends) : ProcessMessageResumed(i))
  /\ WF_vars(\E i \in 1..Len(sends) : SendMessageReturns(i))

\* C28: every message sendMessage has put in the queue is in the end
\* completed or failed, with sendMessage returned for it.
C28_EveryMessageSettles ==
  \A i \in 1..MaxMessages :
    (Len(messageQueue) >= i)
      ~> (/\ Len(sends) >= i
          /\ sends[i].pc = "returned"
          /\ messageQueue[i].status \in {"completed", "failed"})

C28_SuspendedMessageCompleted ==
  \E i \in 1..Len(sends) :
    /\ sends[i].pc = "returned"
    /\ sends[i].requests # << >>
    /\ messageQueue[i].status = "completed"
    /\ sends[i].result.success

\* ---------------------------------------------------------------------------
\* The router with passing time: messages to a registered agent that has no
\* role handler, beside messages to one that has.
\* ---------------------------------------------------------------------------
NextUnhandled ==
  \/ Tick
  \/ RegisterAgent("custom-agent", [type |-> "custom"])
  \/ \E toAgentId \in {"custom-agent", "a2a-agent"}, message \in Messages :
       SendMessage("system", toAgentId, message, "s1", "k3x9a")
  \/ \E i \in 1..Len(sends) : ProcessMessage(i)
  \/ \E i \in 1..Len(sends) : HandlerRuns(i)
  \/ \E i \in 1..Len(sends) : ExecuteAgentActionResumed(i)
  \/ \E i \in 1..Len(sends) : ProcessMessageResumed(i)
  \/ \E i \in 1..Len(sends) : SendMessageReturns(i)

SpecUnhandled == Init /\ [][NextUnhandled]_vars

\* C29: a message to an agent that is registered and is none of the four
\* role agents goes from pending to processing, with the agent's lastActivity
\* set to the time of that step and no handler run, and then from processing
\* to failed with the error 'Unknown agent type: <id>'; sendMessage returns
\* {success: false, messageId, error} for it.
C29_UnhandledAgentFails ==
  [][\A i \in 1..Len(sends) :
       LET to == messageQueue[i].to
           error == <<"Unknown agent type: ", to>>
       IN  (/\ to \in DOMAIN agents
            /\ to \notin RoleAgents
            /\ sends'[i] # sends[i]) =>
             /\ (sends[i].pc = "processMessage" /\ sends[i].line = 59) =>
                  /\ messageQueue[i].status = "pending"
                  /\ messageQueue'[i].status = "processing"
                  /\ agents'[to].lastActivity = now
                  /\ sends'[i].pc = "processMessage"
                  /\ sends'[i].line = 84
                  /\ sends'[i].awaited = Thrown(error)
             /\ (sends[i].pc = "processMessage" /\ sends[i].line = 84) =>
                  /\ messageQueue[i].status = "processing"
                  /\ messageQueue'[i].status = "failed"
                  /\ messageQueue'[i].error = error
                  /\ sends'[i].pc = "sendMessage"
                  /\ sends'[i].result = [success |-> FALSE,
                                         messageId |-> messageQueue[i].id,
                                         error |-> error]
             /\ sends[i].pc = "sendMessage" =>
                  /\ messageQueue'[i] = messageQueue[i]
                  /\ sends'[i] = [sends[i] EXCEPT !.pc = "returned"]
    ]_vars

\* a message sent to custom-agent at time 1 has failed, and the agent's
\* lastActivity is that time
C29_CustomAgentActiveAndFailed ==
  /\ "custom-agent" \in DOMAIN agents
  /\ agents["custom-agent"].lastActivity = 1
  /\ \E i \in 1..Len(sends) :
       /\ messageQueue[i].to = "custom-agent"
       /\ messageQueue[i].timestamp = 1
       /\ messageQueue[i].status = "failed"
       /\ messageQueue[i].error = <<"Unknown agent type: ", "custom-agent">>
       /\ sends[i].pc = "returned"
       /\ ~sends[i].result.success

\* C30: once a call of analyzeArgument has ended, the thesisClarity of its
\* analysis is 0.3 when the text has no thesis marker and 0.8 when it has
\* one, identifyStrengths reports no strength of area 'Tesis' for it, and
\* the weaknesses identified for it include thesis_weak exactly when the
\* text has no thesis marker.
C30_ThesisWeakWithoutMarker ==
  \A c \in DOMAIN calls :
    calls[c].pc \in {"resolved", "rejected"} =>
      LET holds(marked, weaknesses, strengths) ==
            /\ calls[c].analysis.content.thesisClarity =
                 (IF marked THEN Dec(8, 10) ELSE Dec(3, 10))
            /\ ~FGt(calls[c].analysis.content.thesisClarity, Dec(8, 10))
            /\ \A n \in 1..Len(strengths) : strengths[n].area # "Tesis"
            /\ (\E n \in 1..Len(weaknesses) :
                  weaknesses[n].type = "thesis_weak") <=> ~marked
      IN  holds(detectThesis(calls[c].studentText),
                IF calls[c].pc = "resolved"
                  THEN identifyWeaknesses(calls[c].analysis) ELSE << >>,
                IF calls[c].pc = "resolved"
                  THEN identifyStrengths(calls[c].analysis) ELSE << >>)

====
